---- MODULE Spec2Model ----
(***************************************************************************)
(* A model of the directory synchroniser (src/dir_sync): two processes,    *)
(* each with a monitored directory, a signature store, a watcher           *)
(* (ChangeHandler), a registry of peer sessions (NodeManager) and one      *)
(* receive thread per session (Node).                                      *)
(*                                                                         *)
(* Time is counted in ticks of 100 ms.  A file is a sequence of blocks; a  *)
(* block stands for one checksum block of the rsync codec.                 *)
(***************************************************************************)
EXTENDS Integers, Sequences, FiniteSets, TLC

\* ------------------------------------------------------------------ bounds
MaxTicks == 2
MaxWrites == 2
MaxJoinWrites == 1
MaxMtime == 2
MaxConns == 2
MaxBeacons == 2
MaxCalls == 3
MaxMoves == 2
MaxDeltaLen == 2
ChunksPerFrame == 2
MaxFrames == 2

\* ------------------------------------------------------- program constants
\* 500_000_000 ns, in ticks of 100 ms (event_handler.py:27)
IGNORE_WINDOW == 5
\* 100_000_000 ns, in ticks of 100 ms (event_handler.py:40)
DEBOUNCE == 1
\* the default of --listen-port (main.py:39)
ListenPort == 6000
\* the bytes of the length prefix, struct.pack('>Q', ..) (node.py:70)
HEADER == 8
\* the most bytes one socket.recv returns (node.py:71)
RECV_SIZE == 4096

\* the clock reads Start when a specification begins and stops at Horizon
Start == 1 + IGNORE_WINDOW
Horizon == Start + MaxTicks

Procs == {"X", "Y"}
Paths == {"f"}
Blocks == {1, 2}
Contents == {<<>>, <<1>>, <<1, 2>>, <<2, 1>>}
EphPorts == {50001, 50002}
Conns == 1..MaxConns

Peer(p) ==
  IF p = "X" THEN "Y" ELSE "X"

\* ---------------------------------------------------- files and signatures
NoFile == [exists |-> FALSE, content |-> <<>>, mtime |-> 0]
File(c, m) == [exists |-> TRUE, content |-> c, mtime |-> m]
NoSig == [exists |-> FALSE, blocks |-> <<>>]

\* one (weak, strong) pair of pyrsync2.blockchecksums; distinct blocks have
\* distinct checksums
BlockChecksum(b) == [weak |-> b, strong |-> b]

compute_signature(content) ==
  [i \in 1..Len(content) |-> BlockChecksum(content[i])]

\* save_signature writes the packed, compressed list; load_signature and
\* parse_signature unpack it again
save_signature(signature) == [exists |-> TRUE, blocks |-> signature]

\* load_signature: None when the file is missing
load_signature(store, path) == store[path]

\* Python's truth value of what load_signature returned: None and the empty
\* list are both false
Truthy(sig) == sig.exists /\ sig.blocks # <<>>

\* --------------------------------------------------------------- the codec
BlockRef(i) == [tag |-> "int", ref |-> i, lit |-> <<>>]
Literal(s) == [tag |-> "bytes", ref |-> 0, lit |-> s]

\* index (from 0) of the block of the signature with this checksum; the
\* dictionary of rsyncdelta keeps the last one
MatchIndex(signature, b) ==
  LET hits == {i \in 1..Len(signature) : signature[i] = BlockChecksum(b)}
  IN IF hits = {} THEN -1 ELSE (CHOOSE i \in hits : \A j \in hits : j <= i) - 1

\* pyrsync2.rsyncdelta over the blocks of the new file
generate_delta(signature, content) ==
  [i \in 1..Len(content) |->
     IF MatchIndex(signature, content[i]) >= 0
     THEN BlockRef(MatchIndex(signature, content[i]))
     ELSE Literal(<<content[i]>>)]

RECURSIVE Join(_)
Join(chunks) ==
  IF chunks = <<>> THEN <<>> ELSE Head(chunks) \o Join(Tail(chunks))

\* pyrsync2.patchstream: a block reference seeks in the base file and reads
\* one block, nothing past its end
PatchItem(base, item) ==
  IF item.tag = "int"
  THEN IF item.ref + 1 <= Len(base) THEN <<base[item.ref + 1]>> ELSE <<>>
  ELSE item.lit

patchstream(base, delta) ==
  Join([i \in 1..Len(delta) |-> PatchItem(base, delta[i])])

\* base64 of a byte chunk: another alphabet, here the negated blocks
b64encode(s) == [i \in 1..Len(s) |-> 0 - s[i]]
b64decode(t) == [i \in 1..Len(t) |-> 0 - t[i]]

\* an item that is neither an int nor bytes nor a str, and a str
Other == [tag |-> "float", ref |-> 0, lit |-> <<>>]
Str(t) == [tag |-> "str", ref |-> 0, lit |-> t]

\* what stands for the outcome of a call that raised ValueError: no list of
\* items has this shape
ValueError == <<[tag |-> "ValueError", ref |-> 0, lit |-> <<>>]>>

SerializeItem(item) ==
  IF item.tag = "int" THEN item
  ELSE Str(b64encode(item.lit))

\* an int is appended as it is, bytes as base64 text, anything else raises
serialize_delta_data(delta) ==
  IF \E i \in 1..Len(delta) : delta[i].tag \notin {"int", "bytes"}
  THEN ValueError
  ELSE [i \in 1..Len(delta) |-> SerializeItem(delta[i])]

\* variant: the text of a str is taken as it is
DeserializeItemUndecoded(item) ==
  IF item.tag = "int" THEN item
  ELSE [tag |-> "bytes", ref |-> 0, lit |-> item.lit]

DeserializeItem(item) ==
  IF item.tag = "int" THEN item
  ELSE [tag |-> "bytes", ref |-> 0, lit |-> b64decode(item.lit)]

\* an int is appended as it is, a str decoded, anything else raises
deserialize_delta_data(serialized) ==
  IF \E i \in 1..Len(serialized) : serialized[i].tag \notin {"int", "str"}
  THEN ValueError
  ELSE [i \in 1..Len(serialized) |-> DeserializeItem(serialized[i])]

AllBytes(delta) == \A i \in 1..Len(delta) : delta[i].tag = "bytes"
Chunks(delta) == [i \in 1..Len(delta) |-> delta[i].lit]


\* ------------------------------------------------- framing (node.py, zlib)
\* A byte is a number in 0..255, a message a sequence of the small numbers
\* its JSON text is made up of.
\* json.dumps(..).encode('utf-8') and json.loads(..decode('utf-8')): the
\* text goes between braces
dumps(message) == <<123>> \o message \o <<125>>
loads(text) == SubSeq(text, 2, Len(text) - 1)

\* zlib.compress and zlib.decompress: a header byte, then the data in
\* another alphabet; decompress raises zlib.error on anything else
compress(data) == <<120>> \o [i \in 1..Len(data) |-> 255 - data[i]]
CanDecompress(body) == body # <<>> /\ body[1] = 120
decompress(body) == [i \in 1..Len(body) - 1 |-> 255 - body[i + 1]]

\* struct.pack('>Q', n): HEADER bytes, the most significant first
RECURSIVE Digit(_, _)
Digit(n, k) == IF k = 0 THEN n % 256 ELSE Digit(n \div 256, k - 1)
pack(n) == [i \in 1..HEADER |-> Digit(n, HEADER - i)]

\* struct.unpack('>Q', prefix)[0]; lengths of 2^24 and more are all alike
\* here, no stream is that long
TooLong == 16777216
unpack(prefix) ==
  IF \E i \in 1..HEADER - 3 : prefix[i] # 0 THEN TooLong
  ELSE prefix[HEADER - 2] * 65536 + prefix[HEADER - 1] * 256 + prefix[HEADER]

\* the frame send_message writes for a message
Frame(message) ==
  LET compressed_message == compress(dumps(message))
  IN pack(Len(compressed_message)) \o compressed_message

\* variant: what is left of the buffer after a frame is thrown away
TailFromDropped(bytes, n) == <<>>

\* self.buffer = self.buffer[n:]
TailFrom(bytes, n) == SubSeq(bytes, n + 1, Len(bytes))

\* ------------------------------------------------------------------- state
VARIABLES
  now,                \* the clock, in ticks of 100 ms (time.time_ns)
  mclock,             \* the last mtime given to a local write
  writes,             \* number of local writes so far
  files,              \* files[p][path]: the monitored directory of p
  sigs,               \* sigs[p][path]: the signature store of p
  ignore_events,      \* NodeManager.ignore_events of p: path -> time, 0 = no entry
  last_trigger_time,  \* ChangeHandler.last_trigger_time of p
  events,             \* the watcher's queue of filesystem events of p
  wpc,                \* where the watcher thread of p is
  wev,                \* the event the watcher thread of p is handling
  nodes,              \* NodeManager.nodes of p: the registry
  reglock,            \* NodeManager.lock of p: 0 = free, c = held to add session c
  peer,               \* peer[p][c]: the Node object of p for connection c
  inbox,              \* inbox[p][c]: frames in flight to p on connection c
  acceptQ,            \* connections the TCP server of p has yet to hand over
  conn,               \* conn[c]: who opened connection c, from which port
  beacons,            \* number of presence datagrams acted upon so far
  files0,             \* the directories at start
  handled_ds,         \* handled_ds[p][c]: p handled a DIRECTORY_STATE on c
  broadcasts,         \* broadcasts[p]: calls of broadcast_update by p so far
  echoed,             \* "yes" once a process broadcast the event of a remote write
  lock,               \* Node.lock of one session: the thread that holds it
  tpc,                \* tpc[t]: where thread t is in send_message / close_connection
  tframe,             \* tframe[t]: the frame thread t is sending
  tsent,              \* tsent[t]: chunks of it that sendall has written
  wire,               \* what has been written to the socket of the session
  socket,             \* its state: "open", "broken" (writes fail) or "closed"
  stop_event,         \* Node.stop_event of the session
  order,              \* the frames in the order their sends got the lock
  calls,              \* number of send_message calls so far
  mlock,              \* NodeManager.lock, thread by thread: the thread that holds it
  mpc,                \* mpc[t]: where thread t is in the NodeManager / listener code
  in_registry,        \* the session is in NodeManager.nodes
  synced,             \* Node.is_synchronized of the session
  dirs,               \* dirs[p]: the subdirectories of the monitored directory of p
  sigdirs,            \* sigdirs[p]: the subdirectories of the signature store of p
  moves,              \* number of local deletes and renames so far
  temps,              \* temps[p]: temporary files apply_delta of p has left behind
  stream,             \* the bytes of a connection that were sent and not yet read
  buffer,             \* Node.buffer of the reading end
  rpc,                \* where receive_message is: "prefix", "body" or "closed"
  message_length,     \* message_length of receive_message
  sent,               \* the messages given to send_message, in order
  received,           \* the messages receive_message has returned, in order
  cpc,                \* where the codec run is: "start", "serialized", "done", "parsed"
  codec_in,           \* the list given to the codec
  codec_wire,         \* what serialize_delta_data returned for it
  codec_out           \* what deserialize_delta_data returned

fsVars == <<files, sigs, ignore_events, last_trigger_time, events, wpc, wev>>
netVars == <<nodes, reglock, peer, inbox, acceptQ, conn, beacons>>
netVarsButInbox == <<nodes, reglock, peer, acceptQ, conn, beacons>>
ghostVars == <<files0, handled_ds, broadcasts, echoed>>
mainVars == <<now, mclock, writes, fsVars, netVars, ghostVars>>
regVars == <<mlock, mpc, in_registry, synced>>
sendVars == <<lock, tpc, tframe, tsent, wire, socket, stop_event, order, calls, regVars>>
treeVars == <<dirs, sigdirs, moves, temps>>
codecVars == <<cpc, codec_in, codec_wire, codec_out>>
frameVars == <<stream, buffer, rpc, message_length, sent, received>>
vars == <<mainVars, sendVars, treeVars, codecVars, frameVars>>

\* the threads of a process that send on one session: the watcher through
\* broadcast_update, the thread that adds the session through synchronize and
\* the receive thread of the session through handle_directory_state
Threads == {"watcher", "adder", "receiver"}

NoPeer == [state |-> "none", ip |-> "-", port |-> 0, is_synchronized |-> FALSE]
NoConn == [init |-> "-", port |-> 0]
NoEvent == [kind |-> "none", src |-> "-", dest |-> "-", cause |-> "-", stamp |-> 0]

\* the keys of the registry
NodeIds(p) == {<<e.ip, e.port>> : e \in nodes[p]}

\* self.nodes[node_id] = node
DictSet(registry, ip, port, c) ==
  {e \in registry : <<e.ip, e.port>> # <<ip, port>>}
    \cup {[ip |-> ip, port |-> port, conn |-> c]}

\* ------------------------------------------------------------ frames
Absent == [present |-> FALSE, mtime |-> 0, size |-> 0, signature |-> <<>>]
\* (base is bookkeeping, not on the wire: the signature the sender computed
\* the delta against)
NoEntry == [present |-> FALSE, delta |-> <<>>, mtime |-> 0,
            action |-> "-", is_full_file |-> FALSE, base |-> <<>>]

DirectoryState(manifest) == [type |-> "DIRECTORY_STATE", payload |-> manifest]
DeltaTransfer(entries) == [type |-> "DELTA_TRANSFER", payload |-> entries]
ModificationUpdate(update) == [type |-> "MODIFICATION_UPDATE", payload |-> update]

\* Node.send_message on an open socket: the frame joins those in flight to
\* the other end of the connection
send_message(boxes, p, c, frame) ==
  [boxes EXCEPT ![Peer(p)][c] = Append(@, frame)]

\* ------------------------------------------------- reconciliation (node.py)
\* the manifest get_local_directory_state_with_signatures returns
LocalState(p) ==
  [path \in Paths |->
     IF files[p][path].exists
     THEN [present |-> TRUE, mtime |-> files[p][path].mtime,
           size |-> Len(files[p][path].content),
           signature |-> compute_signature(files[p][path].content)]
     ELSE Absent]

\* ... and the signature store it leaves: one signature per file found
SigsAfterWalk(p) ==
  [path \in Paths |->
     IF files[p][path].exists
     THEN save_signature(compute_signature(files[p][path].content))
     ELSE sigs[p][path]]

\* prepare_file_for_transfer: a delta against the remote signature when one
\* is given (and not empty), else the whole file as one chunk
prepare_file_for_transfer(p, path, signature) ==
  LET f == files[p][path]
      delta == IF signature # <<>>
               THEN generate_delta(signature, f.content)
               ELSE <<Literal(f.content)>>
  IN [present |-> TRUE, delta |-> serialize_delta_data(delta),
      mtime |-> f.mtime, action |-> "CREATE",
      is_full_file |-> (signature = <<>>), base |-> signature]

\* variant: a copy as old as the remote one counts as newer
LocalIsNewerOrEqual(local_mtime, remote_mtime) == local_mtime >= remote_mtime

\* the local mtime is compared with the remote one
LocalIsNewer(local_mtime, remote_mtime) == local_mtime > remote_mtime

\* files_to_send of handle_directory_state
FilesToSend(p, remote_state) ==
  [path \in Paths |->
     LET local_file == LocalState(p)[path]
         remote_file == remote_state[path]
     IN IF local_file.present /\ remote_file.present
        THEN IF LocalIsNewer(local_file.mtime, remote_file.mtime)
             THEN prepare_file_for_transfer(p, path, remote_file.signature)
             ELSE NoEntry
        ELSE IF local_file.present
             THEN prepare_file_for_transfer(p, path, <<>>)
             ELSE NoEntry]

\* ------------------------------------------ apply_delta (file_sync.py)
\* variant: without the finally clause the temporary file of a failed run
\* stays
apply_delta_no_cleanup(file, delta_data) ==
  IF ~file.exists
  THEN [raised |-> TRUE, content |-> file.content, temp |-> 1]
  ELSE [raised |-> FALSE, content |-> patchstream(file.content, delta_data),
        temp |-> 0]

\* FileSync.apply_delta: a temporary file is made, the base file is opened
\* (FileNotFoundError without it) and patched into the temporary file, which
\* then replaces the base file; the finally clause removes the temporary file
\* if it is still there.
apply_delta(file, delta_data) ==
  IF ~file.exists
  THEN [raised |-> TRUE, content |-> file.content, temp |-> 0]
  ELSE [raised |-> FALSE, content |-> patchstream(file.content, delta_data),
        temp |-> 0]

\* -------------------------------------------- applying an entry (node.py)
\* What the try block of handle_delta_transfer / handle_modification_update
\* does to one file.  kind: "written" (file replaced, mtime and signature
\* follow), "skipped" (the continue / return), "failed" (an exception,
\* logged), "truncated" (open(.., 'wb') succeeded, the join raised).
\* temp: the temporary files the step leaves behind.
ApplyEntry(file, has_baseline, entry) ==
  LET delta_data == deserialize_delta_data(entry.delta)
      patched == apply_delta(file, delta_data)
  IN IF delta_data # <<>>
     THEN IF entry.is_full_file
          THEN IF AllBytes(delta_data)
               THEN [kind |-> "written", content |-> Join(Chunks(delta_data)),
                     temp |-> 0]
               ELSE [kind |-> "truncated", content |-> <<>>, temp |-> 0]
          ELSE IF ~has_baseline
               THEN [kind |-> "skipped", content |-> file.content, temp |-> 0]
               ELSE IF patched.raised
                    THEN [kind |-> "failed", content |-> file.content,
                          temp |-> patched.temp]
                    ELSE [kind |-> "written", content |-> patched.content,
                          temp |-> patched.temp]
     ELSE [kind |-> "written", content |-> <<>>, temp |-> 0]

\* handle_delta_transfer asks for a stored signature before a delta
DeltaTransferBaseline(p, path) == Truthy(load_signature(sigs[p], path))

\* handle_modification_update asks for the base file
ModificationBaseline(p, path) == files[p][path].exists

\* variant: the write without os.utime, the file keeps the time of the write
FileAfterNoUtime(file, outcome, mtime, local_mtime) ==
  IF outcome.kind \in {"written", "truncated"}
  THEN File(outcome.content, local_mtime)
  ELSE file

FileAfter(file, outcome, mtime, local_mtime) ==
  IF outcome.kind = "written" THEN File(outcome.content, mtime)
  ELSE IF outcome.kind = "truncated" THEN File(<<>>, local_mtime)
  ELSE file

SigAfter(sig, outcome) ==
  IF outcome.kind = "written"
  THEN save_signature(compute_signature(outcome.content))
  ELSE sig

\* the filesystem event a write of the receive thread raises
WriteEvent(file, path, cause, stamp) ==
  [kind |-> IF file.exists THEN "modified" ELSE "created",
   src |-> path, dest |-> "-", cause |-> cause, stamp |-> stamp]


\* ------------------------------------------- subdirectories (os, os.path)
\* the files of a monitored directory with two subdirectories
TreePaths == {"a/b", "c/d"}

\* os.path.dirname of a relative path; "." is the directory itself
dirname(path) ==
  IF path = "a/b" THEN "a" ELSE IF path = "c/d" THEN "c" ELSE "."

\* variant: the directory is not made
makedirs_skipped(directories, d) == directories

\* os.makedirs(d, exist_ok=True)
makedirs(directories, d) == directories \cup {d}

\* os.rename(src, dst) finds the directory of dst; FileNotFoundError if not
CanRename(directories, dst) ==
  dirname(dst) = "." \/ dirname(dst) \in directories

\* open(path, 'wb') finds the directory of path; FileNotFoundError if not
CanOpen(directories, path) ==
  dirname(path) = "." \/ dirname(path) \in directories

\* os.makedirs(os.path.dirname(path), exist_ok=True); the directory itself
\* is there already
make_parent(directories, path) ==
  IF dirname(path) = "." THEN directories
  ELSE makedirs(directories, dirname(path))

\* os.rename(src, dst): the entry of src becomes the entry of dst
rename(tree, src, dst, absent) ==
  [path \in DOMAIN tree |->
     IF path = dst THEN tree[src] ELSE IF path = src THEN absent ELSE tree[path]]

\* the filesystem events a removal and a rename raise
DeleteEvent(path, cause, stamp) ==
  [kind |-> "deleted", src |-> path, dest |-> "-", cause |-> cause, stamp |-> stamp]

MoveEvent(src, dst, cause, stamp) ==
  [kind |-> "moved", src |-> src, dest |-> dst, cause |-> cause, stamp |-> stamp]


\* ------------------------------------------------ the watcher (event_handler.py)
HasTilde(path) == path = "f~"

\* variant: an event at exactly ignore_time + 500 ms still counts as inside
InWindowInclusive(event_time, ignore_time) ==
  event_time <= ignore_time + IGNORE_WINDOW

\* should_ignore: the event is inside the window of the entry
InWindow(event_time, ignore_time) == event_time < ignore_time + IGNORE_WINDOW

\* variant: an event exactly 100 ms after the last one is let through
DebouncePassedAtLimit(current_time, last) == current_time - last >= DEBOUNCE

\* on_modified: enough time since the last MODIFY that was let through
DebouncePassed(current_time, last) == current_time - last > DEBOUNCE

\* on_modified returns without calling handle_modify_create
Debounced(p, e) ==
  /\ e.kind = "modified"
  /\ ~(~HasTilde(e.src) /\ DebouncePassed(now, last_trigger_time[p]))

\* handle_modify_create: the payload it builds for the file as it is now
UpdatePayload(p, e) ==
  LET f == files[p][e.src]
      old_signature == load_signature(sigs[p], e.src)
      delta == IF Truthy(old_signature)
               THEN generate_delta(old_signature.blocks, f.content)
               ELSE <<Literal(f.content)>>
  IN [file_path |-> e.src, delta |-> serialize_delta_data(delta),
      mtime |-> f.mtime,
      action |-> IF e.kind = "created" THEN "CREATE" ELSE "MODIFY",
      is_full_file |-> ~Truthy(old_signature), dest_path |-> "-",
      base |-> old_signature.blocks]

\* variant: broadcast_update without the is_synchronized test
ShouldSendAny(p, c) == TRUE

\* broadcast_update sends to the sessions of the registry that pass this test
ShouldSend(p, c) == peer[p][c].is_synchronized

BroadcastTargets(p) == {c \in Conns : (\E e \in nodes[p] : e.conn = c) /\ ShouldSend(p, c)}

\* broadcast_update: one frame to each target, under the registry lock
broadcast_update(boxes, p, payload) ==
  [q \in Procs |-> [c \in Conns |->
     IF q = Peer(p) /\ c \in BroadcastTargets(p)
     THEN Append(boxes[q][c], ModificationUpdate(payload))
     ELSE boxes[q][c]]]

\* variant: broadcast_update without taking the registry lock
CanBroadcastUnlocked(p) == TRUE

\* the registry lock is free for broadcast_update to take
CanBroadcast(p) == reglock[p] = 0

\* Bookkeeping for the echo claim: "late" once the event of a remote write is
\* handled outside the window of its own entry, "yes" once such an event,
\* handled inside it, is broadcast.
EchoMark(e, broadcast) ==
  IF echoed # "no" \/ e.cause # "remote" THEN echoed
  ELSE IF ~InWindow(now, e.stamp) THEN "late"
  ELSE IF broadcast THEN "yes" ELSE "no"

\* the payloads of on_deleted and on_moved; the keys they leave out read as
\* None / False at the receiver
DeletePayload(e) ==
  [file_path |-> e.src, delta |-> <<>>, mtime |-> now, action |-> "DELETE",
   is_full_file |-> FALSE, dest_path |-> "-", base |-> <<>>]

RenamePayload(e) ==
  [file_path |-> e.src, delta |-> <<>>, mtime |-> now, action |-> "RENAME",
   is_full_file |-> FALSE, dest_path |-> e.dest, base |-> <<>>]

\* on_deleted, after should_ignore returned False
on_deleted(p, e) ==
  /\ CanBroadcast(p)
  /\ sigs' = [sigs EXCEPT ![p][e.src] = NoSig]
  /\ inbox' = broadcast_update(inbox, p, DeletePayload(e))
  /\ broadcasts' = [broadcasts EXCEPT ![p] = @ + 1]
  /\ echoed' = EchoMark(e, BroadcastTargets(p) # {})
  /\ UNCHANGED <<last_trigger_time, sigdirs>>

\* on_moved, after should_ignore returned False: a rename that raises ends
\* the handler before the broadcast
on_moved(p, e) ==
  LET stored == sigs[p][e.src].exists
      made == IF stored THEN makedirs(sigdirs[p], dirname(e.dest)) ELSE sigdirs[p]
      raises == stored /\ ~CanRename(made, e.dest)
  IN /\ sigdirs' = [sigdirs EXCEPT ![p] = made]
     /\ sigs' = IF stored /\ ~raises
                THEN [sigs EXCEPT ![p] = rename(@, e.src, e.dest, NoSig)]
                ELSE sigs
     /\ IF raises
        THEN /\ echoed' = EchoMark(e, FALSE)
             /\ UNCHANGED <<inbox, broadcasts>>
        ELSE /\ CanBroadcast(p)
             /\ inbox' = broadcast_update(inbox, p, RenamePayload(e))
             /\ broadcasts' = [broadcasts EXCEPT ![p] = @ + 1]
             /\ echoed' = EchoMark(e, BroadcastTargets(p) # {})
     /\ UNCHANGED last_trigger_time

\* on_created / on_modified, after should_ignore returned False
on_created_modified(p, e) ==
  /\ last_trigger_time' =
       IF e.kind = "modified" /\ ~Debounced(p, e)
       THEN [last_trigger_time EXCEPT ![p] = now]
       ELSE last_trigger_time
  /\ IF ~Debounced(p, e) /\ files[p][e.src].exists
     THEN /\ CanBroadcast(p)
          /\ sigs' = [sigs EXCEPT ![p][e.src] =
                        save_signature(compute_signature(files[p][e.src].content))]
          /\ sigdirs' = [sigdirs EXCEPT ![p] = make_parent(@, e.src)]
          /\ inbox' = broadcast_update(inbox, p, UpdatePayload(p, e))
          /\ broadcasts' = [broadcasts EXCEPT ![p] = @ + 1]
          /\ echoed' = EchoMark(e, BroadcastTargets(p) # {})
     ELSE /\ echoed' = EchoMark(e, FALSE)
          /\ UNCHANGED <<sigs, sigdirs, inbox, broadcasts>>

\* the handler watchdog calls for the kind of the event
Dispatch(p, e) ==
  IF e.kind = "deleted" THEN on_deleted(p, e)
  ELSE IF e.kind = "moved" THEN on_moved(p, e)
  ELSE on_created_modified(p, e)

\* The watcher thread takes the next event and runs should_ignore on it: a
\* fresh entry drops the event, an expired one is about to be popped, and
\* without an entry the handler runs.
should_ignore(p) ==
  /\ wpc[p] = "idle"
  /\ events[p] # <<>>
  /\ LET e == Head(events[p])
         ignore_time == ignore_events[p][e.src]
     IN /\ events' = [events EXCEPT ![p] = Tail(@)]
        /\ IF ignore_time # 0 /\ InWindow(now, ignore_time)
           THEN /\ echoed' = EchoMark(e, FALSE)
                /\ UNCHANGED <<wpc, wev, last_trigger_time, sigs, inbox, broadcasts,
                               sigdirs>>
           ELSE IF ignore_time # 0
                THEN /\ wpc' = [wpc EXCEPT ![p] = "evict"]
                     /\ wev' = [wev EXCEPT ![p] = e]
                     /\ echoed' = EchoMark(e, FALSE)
                     /\ UNCHANGED <<last_trigger_time, sigs, inbox, broadcasts,
                                    sigdirs>>
                ELSE /\ Dispatch(p, e)
                     /\ UNCHANGED <<wpc, wev>>
  /\ UNCHANGED <<frameVars, codecVars, dirs, moves, temps, sendVars, now, mclock, writes, files, ignore_events,
                 nodes, reglock, peer, acceptQ, conn, beacons, files0, handled_ds>>

\* ... self.node_manager.ignore_events.pop(full_path), return False, and the
\* handler runs
should_ignore_pop(p) ==
  /\ wpc[p] = "evict"
  /\ ignore_events' = [ignore_events EXCEPT ![p][wev[p].src] = 0]
  /\ wpc' = [wpc EXCEPT ![p] = "idle"]
  /\ wev' = [wev EXCEPT ![p] = NoEvent]
  /\ Dispatch(p, wev[p])
  /\ UNCHANGED <<frameVars, codecVars, dirs, moves, temps, sendVars, now, mclock, writes, files, events, nodes,
                 reglock, peer, acceptQ, conn, beacons, files0, handled_ds>>

\* ---------------------------------------------------------- the environment
\* a program other than the synchroniser writes a file of the directory
LocalWrite(p, path, c) ==
  /\ writes < MaxWrites
  /\ CanOpen(dirs[p], path)
  /\ ~(files[p][path].exists /\ files[p][path].content = c)
  /\ writes' = writes + 1
  /\ mclock' = mclock + 1
  /\ files' = [files EXCEPT ![p][path] = File(c, mclock + 1)]
  /\ events' = [events EXCEPT ![p] =
                  Append(@, WriteEvent(files[p][path], path, "local", 0))]
  /\ UNCHANGED <<frameVars, codecVars, treeVars, sendVars, now, sigs, ignore_events, last_trigger_time, wpc, wev,
                 netVars, ghostVars>>

\* ... makes a subdirectory; the watcher ignores the events of directories
LocalMkdir(p, d) ==
  /\ d \notin dirs[p]
  /\ dirs' = [dirs EXCEPT ![p] = makedirs(@, d)]
  /\ UNCHANGED <<frameVars, codecVars, sigdirs, moves, temps, sendVars, mainVars>>

\* ... removes a file
LocalDelete(p, path) ==
  /\ moves < MaxMoves
  /\ files[p][path].exists
  /\ moves' = moves + 1
  /\ files' = [files EXCEPT ![p][path] = NoFile]
  /\ events' = [events EXCEPT ![p] = Append(@, DeleteEvent(path, "local", 0))]
  /\ UNCHANGED <<frameVars, codecVars, dirs, sigdirs, temps, sendVars, now, mclock, writes, sigs, ignore_events,
                 last_trigger_time, wpc, wev, netVars, ghostVars>>

\* ... renames a file, to a place where there is none, making the directory
\* for it first (the events of directories are ignored)
LocalMove(p, src, dst) ==
  /\ moves < MaxMoves
  /\ files[p][src].exists
  /\ ~files[p][dst].exists
  /\ moves' = moves + 1
  /\ dirs' = [dirs EXCEPT ![p] = @ \cup {dirname(dst)}]
  /\ files' = [files EXCEPT ![p] = rename(@, src, dst, NoFile)]
  /\ events' = [events EXCEPT ![p] = Append(@, MoveEvent(src, dst, "local", 0))]
  /\ UNCHANGED <<frameVars, codecVars, sigdirs, temps, sendVars, now, mclock, writes, sigs, ignore_events,
                 last_trigger_time, wpc, wev, netVars, ghostVars>>

Tick ==
  /\ now < Horizon
  /\ now' = now + 1
  /\ UNCHANGED <<frameVars, codecVars, treeVars, sendVars, mclock, writes, fsVars, netVars, ghostVars>>


\* ------------------------------------------------ the registry (node_manager.py)
FreeConns == {c \in Conns : conn[c].init = "-"}

\* ports of p that an open socket of p still uses
PortsInUse(p) ==
  {conn[c].port : c \in {d \in Conns : conn[d].init = p /\ peer[p][d].state = "open"}}

\* the local port create_connection may get from the system: any free one;
\* for the first connection of a process every port is as good as another
\* and the smallest stands for all
PortChoices(p) ==
  IF \A c \in Conns : conn[c].init # p
  THEN {CHOOSE port \in EphPorts : \A other \in EphPorts : port <= other}
  ELSE EphPorts \ PortsInUse(p)

\* variant: the identity is never found in the registry
RegisteredNever(p, ip, port) == FALSE

\* the test of connect_to_node and handle_incoming_connection
Registered(p, ip, port) == <<ip, port>> \in NodeIds(p)

\* add_node_unsafe up to start_listener: the Node is made and registered and
\* its receive thread runs; the caller still holds the registry lock
add_node_unsafe(p, ip, port, c) ==
  /\ peer' = [peer EXCEPT ![p][c] =
                [state |-> "open", ip |-> ip, port |-> port,
                 is_synchronized |-> FALSE]]
  /\ nodes' = [nodes EXCEPT ![p] = DictSet(@, ip, port, c)]
  /\ reglock' = [reglock EXCEPT ![p] = c]

\* listen_for_broadcasts hears the peer's NODE:ip:port and calls
\* connect_to_node, which opens a connection unless the identity is known
connect_to_node(p) ==
  /\ beacons < MaxBeacons
  /\ reglock[p] = 0
  /\ beacons' = beacons + 1
  /\ IF Registered(p, Peer(p), ListenPort)
     THEN UNCHANGED <<peer, nodes, reglock, conn, acceptQ>>
     ELSE /\ FreeConns # {}
          /\ LET c == CHOOSE d \in FreeConns : \A d2 \in FreeConns : d <= d2
             IN \E port \in PortChoices(p) :
                  /\ conn' = [conn EXCEPT ![c] = [init |-> p, port |-> port]]
                  /\ acceptQ' = [acceptQ EXCEPT ![Peer(p)] = Append(@, c)]
                  /\ add_node_unsafe(p, Peer(p), ListenPort, c)
  /\ UNCHANGED <<frameVars, codecVars, treeVars, sendVars, now, mclock, writes, fsVars, inbox, ghostVars>>

\* the thread start_tcp_server starts for an accepted connection
handle_incoming_connection(p) ==
  /\ acceptQ[p] # <<>>
  /\ reglock[p] = 0
  /\ LET c == Head(acceptQ[p])
     IN /\ acceptQ' = [acceptQ EXCEPT ![p] = Tail(@)]
        /\ IF Registered(p, conn[c].init, conn[c].port)
           THEN UNCHANGED <<peer, nodes, reglock>>
           ELSE add_node_unsafe(p, conn[c].init, conn[c].port, c)
  /\ UNCHANGED <<frameVars, codecVars, treeVars, sendVars, now, mclock, writes, fsVars, inbox, conn, beacons, ghostVars>>

\* add_node_unsafe from node.synchronize() on: the directory is walked, the
\* DIRECTORY_STATE is sent and the caller releases the registry lock.  On a
\* socket that the receive thread has closed meanwhile the send never returns
\* and the lock stays held.
synchronize(p, c) ==
  /\ reglock[p] = c
  /\ c \in Conns
  /\ peer[p][c].state = "open"
  /\ sigs' = [sigs EXCEPT ![p] = SigsAfterWalk(p)]
  /\ inbox' = send_message(inbox, p, c, DirectoryState(LocalState(p)))
  /\ reglock' = [reglock EXCEPT ![p] = 0]
  /\ UNCHANGED <<frameVars, codecVars, treeVars, sendVars, now, mclock, writes, files, ignore_events, last_trigger_time,
                 events, wpc, wev, nodes, peer, acceptQ, conn, beacons, ghostVars>>

\* ------------------------------------------------- the receive thread (node.py)
\* listen_for_messages has a frame of this type to hand to handle_message
Receives(p, c, type) ==
  /\ peer[p][c].state = "open"
  /\ inbox[p][c] # <<>>
  /\ Head(inbox[p][c]).type = type

AnyEntry(entries) == \E path \in Paths : entries[path].present

handle_directory_state(p, c) ==
  /\ Receives(p, c, "DIRECTORY_STATE")
  /\ LET files_to_send == FilesToSend(p, Head(inbox[p][c]).payload)
         rest == [inbox EXCEPT ![p][c] = Tail(@)]
     IN inbox' = IF AnyEntry(files_to_send)
                 THEN send_message(rest, p, c, DeltaTransfer(files_to_send))
                 ELSE rest
  /\ sigs' = [sigs EXCEPT ![p] = SigsAfterWalk(p)]
  /\ peer' = [peer EXCEPT ![p][c].is_synchronized = TRUE]
  /\ handled_ds' = [handled_ds EXCEPT ![p][c] = TRUE]
  /\ UNCHANGED <<frameVars, codecVars, treeVars, sendVars, now, mclock, writes, files, ignore_events, last_trigger_time,
                 events, wpc, wev, nodes, reglock, acceptQ, conn, beacons,
                 files0, broadcasts, echoed>>

PathSeq == <<"f">>

\* the events the writes of one handle_delta_transfer raise, in payload order
RECURSIVE TransferEvents(_, _, _)
TransferEvents(p, entries, i) ==
  IF i > Len(PathSeq) THEN <<>>
  ELSE LET path == PathSeq[i]
           outcome == ApplyEntry(files[p][path], DeltaTransferBaseline(p, path),
                                 entries[path])
       IN (IF entries[path].present /\ outcome.kind \in {"written", "truncated"}
           THEN <<WriteEvent(files[p][path], path, "remote", now)>>
           ELSE <<>>) \o TransferEvents(p, entries, i + 1)

handle_delta_transfer(p, c) ==
  /\ Receives(p, c, "DELTA_TRANSFER")
  /\ LET entries == Head(inbox[p][c]).payload
         outcome(path) == ApplyEntry(files[p][path], DeltaTransferBaseline(p, path),
                                     entries[path])
     IN /\ ignore_events' = [ignore_events EXCEPT ![p] =
                               [path \in Paths |->
                                  IF entries[path].present THEN now ELSE @[path]]]
        /\ files' = [files EXCEPT ![p] =
                       [path \in Paths |->
                          IF entries[path].present
                          THEN FileAfter(@[path], outcome(path),
                                         entries[path].mtime, mclock)
                          ELSE @[path]]]
        /\ sigs' = [sigs EXCEPT ![p] =
                      [path \in Paths |->
                         IF entries[path].present
                         THEN SigAfter(@[path], outcome(path))
                         ELSE @[path]]]
        /\ events' = [events EXCEPT ![p] = @ \o TransferEvents(p, entries, 1)]
        /\ temps' = [temps EXCEPT ![p] =
                       @ + Cardinality({path \in Paths :
                                          /\ entries[path].present
                                          /\ outcome(path).temp > 0})]
        /\ dirs' = [dirs EXCEPT ![p] =
                      @ \cup {dirname(path) :
                                path \in {q \in Paths : entries[q].present
                                                          /\ dirname(q) # "."}}]
        /\ sigdirs' = [sigdirs EXCEPT ![p] =
                         @ \cup {dirname(path) :
                                   path \in {q \in Paths :
                                               /\ entries[q].present
                                               /\ outcome(q).kind = "written"
                                               /\ dirname(q) # "."}}]
  /\ inbox' = [inbox EXCEPT ![p][c] = Tail(@)]
  /\ UNCHANGED <<frameVars, codecVars, moves, sendVars, now, mclock, writes, last_trigger_time, wpc, wev, netVarsButInbox,
                 ghostVars>>

\* the branch for CREATE and MODIFY
apply_update(p, payload) ==
  LET path == payload.file_path
      applied == ApplyEntry(files[p][path], ModificationBaseline(p, path), payload)
      \* no makedirs here: open(full_path, 'wb') raises without the directory
      outcome == IF applied.kind \in {"written", "truncated"}
                      /\ ~CanOpen(dirs[p], path)
                 THEN [kind |-> "failed", content |-> files[p][path].content,
                       temp |-> 0]
                 ELSE applied
  IN /\ files' = [files EXCEPT ![p][path] =
                    FileAfter(@, outcome, payload.mtime, mclock)]
     /\ sigs' = [sigs EXCEPT ![p][path] = SigAfter(@, outcome)]
     /\ events' = [events EXCEPT ![p] =
                     IF outcome.kind \in {"written", "truncated"}
                     THEN Append(@, WriteEvent(files[p][path], path, "remote", now))
                     ELSE @]
     /\ sigdirs' = IF outcome.kind = "written"
                   THEN [sigdirs EXCEPT ![p] = make_parent(@, path)]
                   ELSE sigdirs
     /\ temps' = [temps EXCEPT ![p] = @ + outcome.temp]
     /\ UNCHANGED <<dirs, peer>>

\* variant: the signature is removed only together with the file
apply_delete_with_file(p, payload) ==
  LET path == payload.file_path
  IN /\ files' = [files EXCEPT ![p][path] = NoFile]
     /\ sigs' = IF files[p][path].exists
                THEN [sigs EXCEPT ![p][path] = NoSig]
                ELSE sigs
     /\ events' = [events EXCEPT ![p] =
                     IF files[p][path].exists
                     THEN Append(@, DeleteEvent(path, "remote", now))
                     ELSE @]
     /\ UNCHANGED <<dirs, sigdirs, temps, peer>>

\* the branch for DELETE: the file and its signature go, each if it is there
apply_delete(p, payload) ==
  LET path == payload.file_path
  IN /\ files' = [files EXCEPT ![p][path] = NoFile]
     /\ sigs' = [sigs EXCEPT ![p][path] = NoSig]
     /\ events' = [events EXCEPT ![p] =
                     IF files[p][path].exists
                     THEN Append(@, DeleteEvent(path, "remote", now))
                     ELSE @]
     /\ UNCHANGED <<dirs, sigdirs, temps, peer>>

\* the branch for RENAME: the directory of the destination is made, the file
\* is renamed if it is there, then the signature if it is there.  A rename
\* that raises ends the handler and, through listen_for_messages, the session.
apply_rename(p, c, payload) ==
  LET path == payload.file_path
      dest_path == payload.dest_path
      made == makedirs(dirs[p], dirname(dest_path))
      held == files[p][path].exists
      file_raises == held /\ ~CanRename(made, dest_path)
      stored == ~file_raises /\ sigs[p][path].exists
      sigmade == IF stored THEN makedirs(sigdirs[p], dirname(dest_path))
                 ELSE sigdirs[p]
      sig_raises == stored /\ ~CanRename(sigmade, dest_path)
  IN /\ dirs' = [dirs EXCEPT ![p] = made]
     /\ files' = IF held /\ ~file_raises
                 THEN [files EXCEPT ![p] = rename(@, path, dest_path, NoFile)]
                 ELSE files
     /\ events' = [events EXCEPT ![p] =
                     IF held /\ ~file_raises
                     THEN Append(@, MoveEvent(path, dest_path, "remote", now))
                     ELSE @]
     /\ sigdirs' = [sigdirs EXCEPT ![p] = sigmade]
     /\ sigs' = IF stored /\ ~sig_raises
                THEN [sigs EXCEPT ![p] = rename(@, path, dest_path, NoSig)]
                ELSE sigs
     /\ peer' = IF file_raises \/ sig_raises
                THEN [peer EXCEPT ![p][c].state = "closing"]
                ELSE peer
     /\ UNCHANGED temps

handle_modification_update(p, c) ==
  /\ Receives(p, c, "MODIFICATION_UPDATE")
  /\ LET payload == Head(inbox[p][c]).payload
     IN /\ ignore_events' = [ignore_events EXCEPT ![p][payload.file_path] = now]
        /\ IF payload.action \in {"MODIFY", "CREATE"} THEN apply_update(p, payload)
           ELSE IF payload.action = "DELETE" THEN apply_delete(p, payload)
           ELSE apply_rename(p, c, payload)
  /\ inbox' = [inbox EXCEPT ![p][c] = Tail(@)]
  /\ UNCHANGED <<frameVars, codecVars, moves, sendVars, now, mclock, writes, last_trigger_time, wpc, wev,
                 nodes, reglock, acceptQ, conn, beacons, ghostVars>>


\* ------------------------------------------------------ teardown (node.py)
\* receive_message raises (the connection broke, or the other end closed it):
\* close_connection sets stop_event and closes the socket, the loop of
\* listen_for_messages ends and its finally block is entered
receive_message_fails(p, c) ==
  /\ peer[p][c].state = "open"
  /\ peer' = [peer EXCEPT ![p][c].state = "closing"]
  /\ UNCHANGED <<frameVars, codecVars, treeVars, sendVars, now, mclock, writes, fsVars, nodes, reglock, inbox, acceptQ,
                 conn, beacons, ghostVars>>

\* ... self.node_manager.remove_node(self.ip, self.tcp_port): the session
\* registered under this identity is closed and leaves the registry
remove_node(p, c) ==
  /\ peer[p][c].state = "closing"
  /\ reglock[p] = 0
  /\ LET hit == {e \in nodes[p] : <<e.ip, e.port>> = <<peer[p][c].ip, peer[p][c].port>>}
     IN /\ nodes' = [nodes EXCEPT ![p] = @ \ hit]
        /\ peer' = [peer EXCEPT ![p] =
                      [d \in Conns |->
                         IF d = c THEN [@[d] EXCEPT !.state = "done"]
                         ELSE IF @[d].state = "open" /\ \E e \in hit : e.conn = d
                              THEN [@[d] EXCEPT !.state = "closing"]
                              ELSE @[d]]]
  /\ UNCHANGED <<frameVars, codecVars, treeVars, sendVars, now, mclock, writes, fsVars, reglock, inbox, acceptQ, conn,
                 beacons, ghostVars>>


\* --------------------------------- one session, thread by thread (node.py)
\* The specifications above take a send for one step.  Here send_message and
\* close_connection run statement by statement on one Node, and sendall
\* writes a frame in ChunksPerFrame pieces.

\* variant: send_message and close_connection without waiting for the lock
LockFreeAlways == TRUE

\* self.lock can be acquired
LockFree == lock = "free"

\* a thread calls send_message
send_message_call(t) ==
  /\ calls < MaxCalls
  /\ tpc[t] = "idle"
  /\ calls' = calls + 1
  /\ tframe' = [tframe EXCEPT ![t] = calls + 1]
  /\ tsent' = [tsent EXCEPT ![t] = 0]
  /\ tpc' = [tpc EXCEPT ![t] = "acquire"]
  /\ UNCHANGED <<frameVars, codecVars, treeVars, mainVars, regVars, lock, wire, socket, stop_event, order>>

\* with self.lock:
send_message_acquire(t) ==
  /\ tpc[t] = "acquire"
  /\ LockFree
  /\ lock' = t
  /\ order' = Append(order, tframe[t])
  /\ tpc' = [tpc EXCEPT ![t] = "write"]
  /\ UNCHANGED <<frameVars, codecVars, treeVars, mainVars, regVars, tframe, tsent, wire, socket, stop_event, calls>>

\* self.socket.sendall(...): the next piece of the frame goes out, or the
\* write raises (socket broken, or None after close_connection); after the
\* last piece the with block is left
sendall(t) ==
  /\ tpc[t] = "write"
  /\ IF socket = "open"
     THEN /\ wire' = Append(wire, <<tframe[t], tsent[t] + 1>>)
          /\ tsent' = [tsent EXCEPT ![t] = @ + 1]
          /\ IF tsent[t] + 1 = ChunksPerFrame
             THEN /\ tpc' = [tpc EXCEPT ![t] = "idle"]
                  /\ lock' = "free"
             ELSE UNCHANGED <<tpc, lock>>
     ELSE /\ tpc' = [tpc EXCEPT ![t] = "except"]
          /\ UNCHANGED <<wire, tsent, lock>>
  /\ UNCHANGED <<frameVars, codecVars, treeVars, mainVars, regVars, tframe, socket, stop_event, order, calls>>

\* except Exception: self.close_connection(), whose first statement is
\* self.stop_event.set()
send_message_except(t) ==
  /\ tpc[t] = "except"
  /\ stop_event' = TRUE
  /\ tpc' = [tpc EXCEPT ![t] = "close_in_send"]
  /\ UNCHANGED <<frameVars, codecVars, treeVars, mainVars, regVars, lock, tframe, tsent, wire, socket, order, calls>>

\* the network drops the connection
connection_breaks ==
  /\ socket = "open"
  /\ socket' = "broken"
  /\ UNCHANGED <<frameVars, codecVars, treeVars, mainVars, regVars, lock, tpc, tframe, tsent, wire, stop_event, order, calls>>

\* receive_message of the receive thread raises and calls close_connection
receive_message_except ==
  /\ tpc["receiver"] = "idle"
  /\ socket = "broken"
  /\ stop_event' = TRUE
  /\ tpc' = [tpc EXCEPT !["receiver"] = "close_in_listen"]
  /\ UNCHANGED <<frameVars, codecVars, treeVars, mainVars, regVars, lock, tframe, tsent, wire, socket, order, calls>>

\* close_connection from "with self.lock:" on: the socket is closed and set
\* to None.  Back in send_message the outer with block is left; back in
\* listen_for_messages the thread ends.
close_connection(t) ==
  /\ tpc[t] \in {"close_in_send", "close_in_listen"}
  /\ LockFree
  /\ socket' = "closed"
  /\ IF tpc[t] = "close_in_send"
     THEN /\ tpc' = [tpc EXCEPT ![t] = "idle"]
          /\ lock' = "free"
     ELSE /\ tpc' = [tpc EXCEPT ![t] = "done"]
          /\ UNCHANGED lock
  /\ UNCHANGED <<frameVars, codecVars, treeVars, mainVars, regVars, tframe, tsent, wire, stop_event, order, calls>>

ThreadStep(t) ==
  \/ send_message_call(t)
  \/ send_message_acquire(t)
  \/ sendall(t)
  \/ send_message_except(t)
  \/ close_connection(t)


\* ------------- the registry lock, thread by thread (node_manager.py, node.py)
\* One accepted connection: the adder thread runs handle_incoming_connection,
\* the watcher thread runs broadcast_update once, and the receive thread that
\* add_node_unsafe starts runs listen_for_messages.

\* the thread has not called send_message yet / has returned from its call
NotSentYet(t) == tpc[t] = "idle" /\ tframe[t] = 0
SendReturned(t) == tpc[t] = "idle" /\ tframe[t] # 0

\* NodeManager.lock can be acquired
RegistryLockFree == mlock = "free"

\* handle_incoming_connection: with self.lock, node_id not in self.nodes;
\* add_node_unsafe makes the Node, registers it and starts its listener
add_node_acquire ==
  /\ mpc["adder"] = "idle"
  /\ RegistryLockFree
  /\ mlock' = "adder"
  /\ in_registry' = TRUE
  /\ mpc' = [mpc EXCEPT !["adder"] = "walk", !["receiver"] = "listening"]
  /\ UNCHANGED <<frameVars, codecVars, treeVars, mainVars, lock, tpc, tframe, tsent, wire, socket, stop_event,
                 order, calls, synced>>

\* node.synchronize(): get_local_directory_state_with_signatures walks the
\* directory and reads every file
synchronize_walk ==
  /\ mpc["adder"] = "walk"
  /\ mpc' = [mpc EXCEPT !["adder"] = "send"]
  /\ UNCHANGED <<frameVars, codecVars, treeVars, mainVars, lock, tpc, tframe, tsent, wire, socket, stop_event,
                 order, calls, mlock, in_registry, synced>>

\* ... self.send_message('DIRECTORY_STATE', local_state)
synchronize_send ==
  /\ mpc["adder"] = "send"
  /\ NotSentYet("adder")
  /\ send_message_call("adder")

\* add_node_unsafe returns and the with block of the caller is left
add_node_release ==
  /\ mpc["adder"] = "send"
  /\ SendReturned("adder")
  /\ mlock' = "free"
  /\ mpc' = [mpc EXCEPT !["adder"] = "done"]
  /\ UNCHANGED <<frameVars, codecVars, treeVars, mainVars, lock, tpc, tframe, tsent, wire, socket, stop_event,
                 order, calls, in_registry, synced>>

\* broadcast_update: with self.lock, the loop over self.nodes.values()
broadcast_update_acquire ==
  /\ mpc["watcher"] = "idle"
  /\ RegistryLockFree
  /\ mlock' = "watcher"
  /\ mpc' = [mpc EXCEPT !["watcher"] =
               IF in_registry /\ synced THEN "send" ELSE "release"]
  /\ UNCHANGED <<frameVars, codecVars, treeVars, mainVars, lock, tpc, tframe, tsent, wire, socket, stop_event,
                 order, calls, in_registry, synced>>

\* ... node.send_message('MODIFICATION_UPDATE', payload)
broadcast_update_send ==
  /\ mpc["watcher"] = "send"
  /\ NotSentYet("watcher")
  /\ send_message_call("watcher")

\* the loop is over and the with block is left
broadcast_update_release ==
  /\ \/ mpc["watcher"] = "release"
     \/ mpc["watcher"] = "send" /\ SendReturned("watcher")
  /\ mlock' = "free"
  /\ mpc' = [mpc EXCEPT !["watcher"] = "done"]
  /\ UNCHANGED <<frameVars, codecVars, treeVars, mainVars, lock, tpc, tframe, tsent, wire, socket, stop_event,
                 order, calls, in_registry, synced>>

\* the receive thread handles the DIRECTORY_STATE of the peer and answers
\* with a DELTA_TRANSFER
handle_directory_state_send ==
  /\ mpc["receiver"] = "listening"
  /\ NotSentYet("receiver")
  /\ send_message_call("receiver")

\* ... self.is_synchronized = True
handle_directory_state_done ==
  /\ mpc["receiver"] = "listening"
  /\ SendReturned("receiver")
  /\ ~synced
  /\ synced' = TRUE
  /\ UNCHANGED <<frameVars, codecVars, treeVars, mainVars, lock, tpc, tframe, tsent, wire, socket, stop_event,
                 order, calls, mlock, mpc, in_registry>>

\* receive_message of the running receive thread raises
listen_receive_fails ==
  /\ mpc["receiver"] = "listening"
  /\ receive_message_except

\* the finally block of listen_for_messages, after its close_connection:
\* remove_node takes the registry lock
remove_node_acquire ==
  /\ mpc["receiver"] = "listening"
  /\ tpc["receiver"] = "done"
  /\ RegistryLockFree
  /\ mlock' = "receiver"
  /\ mpc' = [mpc EXCEPT !["receiver"] = "remove"]
  /\ UNCHANGED <<frameVars, codecVars, treeVars, mainVars, lock, tpc, tframe, tsent, wire, socket, stop_event,
                 order, calls, in_registry, synced>>

\* ... node.close_connection() (which takes the lock of the Node and finds
\* the socket closed), del self.nodes[node_id], and the lock is released
remove_node_delete ==
  /\ mpc["receiver"] = "remove"
  /\ LockFree
  /\ in_registry' = FALSE
  /\ mlock' = "free"
  /\ mpc' = [mpc EXCEPT !["receiver"] = "removed"]
  /\ UNCHANGED <<frameVars, codecVars, treeVars, mainVars, lock, tpc, tframe, tsent, wire, socket, stop_event,
                 order, calls, synced>>

\* the steps of one thread, inside send_message and around it
SendStep(t) ==
  \/ send_message_acquire(t)
  \/ sendall(t)
  \/ send_message_except(t)
  \/ close_connection(t)

AdderStep ==
  add_node_acquire \/ synchronize_walk \/ synchronize_send \/ add_node_release

WatcherStep ==
  broadcast_update_acquire \/ broadcast_update_send \/ broadcast_update_release

ReceiverStep ==
  \/ handle_directory_state_send
  \/ handle_directory_state_done
  \/ listen_receive_fails
  \/ remove_node_acquire
  \/ remove_node_delete


\* ------------------------------------------------------------ specifications
\* a connection just accepted: socket connected, session not yet made, nobody
\* sending
SendIdle ==
  /\ lock = "free"
  /\ tpc = [t \in Threads |-> "idle"]
  /\ tframe = [t \in Threads |-> 0]
  /\ tsent = [t \in Threads |-> 0]
  /\ wire = <<>>
  /\ socket = "open"
  /\ stop_event = FALSE
  /\ order = <<>>
  /\ calls = 0
  /\ mlock = "free"
  /\ mpc = [t \in Threads |-> "idle"]
  /\ in_registry = FALSE
  /\ synced = FALSE

\* a monitored directory without subdirectories, nothing deleted or renamed
FlatTree ==
  /\ dirs = [p \in Procs |-> {}]
  /\ sigdirs = [p \in Procs |-> {}]
  /\ moves = 0
  /\ temps = [p \in Procs |-> 0]

\* nothing was sent on the connection whose bytes are followed
FrameIdle ==
  /\ stream = <<>>
  /\ buffer = <<>>
  /\ rpc = "prefix"
  /\ message_length = 0
  /\ sent = <<>>
  /\ received = <<>>

\* the codec has not been called
CodecIdle ==
  /\ cpc = "start"
  /\ codec_in = <<>>
  /\ codec_wire = <<>>
  /\ codec_out = <<>>

FileChoices == {NoFile} \cup {File(c, m) : c \in Contents, m \in 1..MaxMtime}

\* Two processes just started: the signature stores were cleared, nobody is
\* connected, the directories hold whatever they hold.
Started ==
  /\ now = Start
  /\ mclock = MaxMtime
  /\ writes = 0
  /\ files \in [Procs -> [Paths -> FileChoices]]
  /\ sigs = [p \in Procs |-> [path \in Paths |-> NoSig]]
  /\ ignore_events = [p \in Procs |-> [path \in Paths |-> 0]]
  /\ last_trigger_time = [p \in Procs |-> Start - (DEBOUNCE + 1)]
  /\ events = [p \in Procs |-> <<>>]
  /\ wpc = [p \in Procs |-> "idle"]
  /\ wev = [p \in Procs |-> NoEvent]
  /\ nodes = [p \in Procs |-> {}]
  /\ reglock = [p \in Procs |-> 0]
  /\ peer = [p \in Procs |-> [c \in Conns |-> NoPeer]]
  /\ inbox = [p \in Procs |-> [c \in Conns |-> <<>>]]
  /\ acceptQ = [p \in Procs |-> <<>>]
  /\ conn = [c \in Conns |-> NoConn]
  /\ beacons = 0
  /\ files0 = files
  /\ handled_ds = [p \in Procs |-> [c \in Conns |-> FALSE]]
  /\ broadcasts = [p \in Procs |-> 0]
  /\ echoed = "no"
  /\ SendIdle
  /\ FlatTree

InitSync == Started /\ CodecIdle /\ FrameIdle

Watcher ==
  \E p \in Procs : should_ignore(p) \/ should_ignore_pop(p)

Receiver ==
  \E p \in Procs, c \in Conns :
    \/ handle_directory_state(p, c)
    \/ handle_delta_transfer(p, c)
    \/ handle_modification_update(p, c)

Registry ==
  \E p \in Procs :
    \/ connect_to_node(p)
    \/ handle_incoming_connection(p)
    \/ \E c \in Conns : synchronize(p, c)

Write ==
  \E p \in Procs, path \in Paths, c \in Contents : LocalWrite(p, path, c)

Reconcile ==
  \E p \in Procs, c \in Conns :
    handle_directory_state(p, c) \/ handle_delta_transfer(p, c)

DropEcho ==
  \E p \in Procs : should_ignore(p)

NextRecon == Registry \/ Reconcile \/ DropEcho

SpecRecon == InitSync /\ [][NextRecon]_vars

\* Two processes just started: Y with an empty directory, X with or without
\* a file.  X is the one whose directory is written while the sessions are
\* set up.
InitJoin ==
  /\ InitSync
  /\ \A path \in Paths :
       /\ files["X"][path] \in {NoFile, File(<<1, 2>>, 1)}
       /\ files["Y"][path] = NoFile

\* what a local write may leave in a file then
JoinContents == {<<1>>, <<2, 1>>}

WriteJoin ==
  /\ writes < MaxJoinWrites
  /\ \E path \in Paths, c \in JoinContents : LocalWrite("X", path, c)

NextSync == Registry \/ Receiver \/ DropEcho \/ WriteJoin

SpecSync == InitJoin /\ [][NextSync]_vars


\* Two processes with empty directories: sessions come and go.
InitReg ==
  /\ InitSync
  /\ \A p \in Procs, path \in Paths : ~files[p][path].exists

Handshake ==
  \E p \in Procs, c \in Conns : handle_directory_state(p, c)

Teardown ==
  \E p \in Procs, c \in Conns : receive_message_fails(p, c) \/ remove_node(p, c)

NextReg == Registry \/ Handshake \/ Teardown

SpecReg == InitReg /\ [][NextReg]_vars

\* One session of a process, its threads sending on it.
NextLock ==
  \/ \E t \in Threads : ThreadStep(t)
  \/ connection_breaks
  \/ receive_message_except

SpecLock == InitReg /\ [][NextLock]_vars

\* every thread that can take a step eventually takes one
SpecLockFair ==
  /\ InitReg
  /\ [][NextLock]_vars
  /\ \A t \in Threads : WF_vars(ThreadStep(t))
  /\ WF_vars(receive_message_except)

\* One accepted connection and the three threads that work on it.
NextThreads ==
  \/ AdderStep
  \/ WatcherStep
  \/ ReceiverStep
  \/ \E t \in Threads : SendStep(t)
  \/ connection_breaks

SpecThreads == InitReg /\ [][NextThreads]_vars

\* every thread that can take a step eventually takes one
SpecThreadsFair ==
  /\ InitReg
  /\ [][NextThreads]_vars
  /\ WF_vars(AdderStep)
  /\ WF_vars(WatcherStep)
  /\ WF_vars(ReceiverStep)
  /\ \A t \in Threads : WF_vars(SendStep(t))

\* X and Y have been connected for a while over connection 1, which X opened:
\* both sessions are synchronized, both directories hold the same thing and
\* the signatures of it are stored.  The watchers were made IGNORE_WINDOW
\* ticks ago, and X may have got the file from Y then.
LiveFiles == {NoFile, File(<<1, 2>>, 1)}

InitLive ==
  /\ now = Start
  /\ mclock = MaxMtime
  /\ writes = 0
  /\ \E f \in LiveFiles :
       /\ files = [p \in Procs |-> [path \in Paths |-> f]]
       /\ sigs = [p \in Procs |-> [path \in Paths |->
                    IF f.exists THEN save_signature(compute_signature(f.content))
                    ELSE NoSig]]
       /\ ignore_events \in
            {[p \in Procs |-> [path \in Paths |-> IF p = "X" THEN t ELSE 0]] :
               t \in IF f.exists THEN {0, Start - IGNORE_WINDOW} ELSE {0}}
  /\ last_trigger_time = [p \in Procs |-> Start - IGNORE_WINDOW]
  /\ events = [p \in Procs |-> <<>>]
  /\ wpc = [p \in Procs |-> "idle"]
  /\ wev = [p \in Procs |-> NoEvent]
  /\ nodes = [p \in Procs |->
                {[ip |-> Peer(p), conn |-> 1,
                  port |-> IF p = "X" THEN ListenPort ELSE 50001]}]
  /\ reglock = [p \in Procs |-> 0]
  /\ peer = [p \in Procs |-> [c \in Conns |->
               IF c = 1
               THEN [state |-> "open", ip |-> Peer(p),
                     port |-> IF p = "X" THEN ListenPort ELSE 50001,
                     is_synchronized |-> TRUE]
               ELSE NoPeer]]
  /\ inbox = [p \in Procs |-> [c \in Conns |-> <<>>]]
  /\ acceptQ = [p \in Procs |-> <<>>]
  /\ conn = [c \in Conns |-> IF c = 1 THEN [init |-> "X", port |-> 50001] ELSE NoConn]
  /\ beacons = 0
  /\ files0 = files
  /\ handled_ds = [p \in Procs |-> [c \in Conns |-> c = 1]]
  /\ broadcasts = [p \in Procs |-> 0]
  /\ echoed = "no"
  /\ SendIdle
  /\ FlatTree
  /\ CodecIdle
  /\ FrameIdle

Updates ==
  \E p \in Procs, c \in Conns : handle_modification_update(p, c)

NextLive == Write \/ Tick \/ Watcher \/ Updates

SpecLive == InitLive /\ [][NextLive]_vars

\* the same, with X the only process whose directory is written
WriteOrigin ==
  \E path \in Paths, c \in Contents : LocalWrite("X", path, c)

NextOrigin == WriteOrigin \/ Tick \/ Watcher \/ Updates

SpecOrigin == InitLive /\ [][NextOrigin]_vars

\* X and Y connected and synchronized as above, the monitored directories
\* with subdirectories.  X holds a/b and may have got it from Y, 500 ms or
\* 100 ms ago; Y holds a/b or not, with its signature stored or not.
TreeFile == File(<<1, 2>>, 1)
TreeSig == save_signature(compute_signature(TreeFile.content))

Only(path, entry, absent) ==
  [q \in TreePaths |-> IF q = path THEN entry ELSE absent]

InitMove ==
  /\ now = Start
  /\ mclock = MaxMtime
  /\ writes = 0
  /\ moves = 0
  /\ \E yfile \in {NoFile, TreeFile}, xsig \in {NoSig, TreeSig},
        ysig \in {NoSig, TreeSig},
        t \in {0, Start - IGNORE_WINDOW, Start - 1} :
       /\ files = [p \in Procs |->
                     Only("a/b", IF p = "X" THEN TreeFile ELSE yfile, NoFile)]
       /\ sigs = [p \in Procs |->
                    Only("a/b", IF p = "X" THEN xsig ELSE ysig, NoSig)]
       /\ ignore_events = [p \in Procs |->
                             Only("a/b", IF p = "X" THEN t ELSE 0, 0)]
  /\ dirs = [p \in Procs |-> {"a"}]
  /\ sigdirs = [p \in Procs |-> {"a"}]
  /\ temps = [p \in Procs |-> 0]
  /\ last_trigger_time = [p \in Procs |-> Start - IGNORE_WINDOW]
  /\ events = [p \in Procs |-> <<>>]
  /\ wpc = [p \in Procs |-> "idle"]
  /\ wev = [p \in Procs |-> NoEvent]
  /\ nodes = [p \in Procs |->
                {[ip |-> Peer(p), conn |-> 1,
                  port |-> IF p = "X" THEN ListenPort ELSE 50001]}]
  /\ reglock = [p \in Procs |-> 0]
  /\ peer = [p \in Procs |-> [c \in Conns |->
               IF c = 1
               THEN [state |-> "open", ip |-> Peer(p),
                     port |-> IF p = "X" THEN ListenPort ELSE 50001,
                     is_synchronized |-> TRUE]
               ELSE NoPeer]]
  /\ inbox = [p \in Procs |-> [c \in Conns |-> <<>>]]
  /\ acceptQ = [p \in Procs |-> <<>>]
  /\ conn = [c \in Conns |-> IF c = 1 THEN [init |-> "X", port |-> 50001] ELSE NoConn]
  /\ beacons = 0
  /\ files0 = files
  /\ handled_ds = [p \in Procs |-> [c \in Conns |-> c = 1]]
  /\ broadcasts = [p \in Procs |-> 0]
  /\ echoed = "no"
  /\ SendIdle
  /\ CodecIdle
  /\ FrameIdle

Remove ==
  \E p \in Procs, path \in TreePaths : LocalDelete(p, path)

Move ==
  \E p \in Procs, src \in TreePaths, dst \in TreePaths :
    src # dst /\ LocalMove(p, src, dst)

NextMove == Remove \/ Move \/ Tick \/ Watcher \/ Updates

SpecMove == InitMove /\ [][NextMove]_vars

\* The codec alone: a list of at most MaxDeltaLen items, each an int, bytes
\* or something else, is serialized and the result deserialized; or the list
\* is given to deserialize_delta_data as it is.
ItemChoices ==
  {BlockRef(i) : i \in 0..1}
    \cup {Literal(c) : c \in {<<>>, <<1>>, <<1, 2>>}}
    \cup {Str(b64encode(c)) : c \in {<<1>>, <<2, 1>>}}
    \cup {Other}

DeltaChoices ==
  UNION {[1..n -> ItemChoices] : n \in 0..MaxDeltaLen}

InitCodec ==
  /\ Started
  /\ FrameIdle
  /\ \A p \in Procs, path \in Paths : ~files[p][path].exists
  /\ cpc = "start"
  /\ codec_in \in DeltaChoices
  /\ codec_wire = <<>>
  /\ codec_out = <<>>

Serialize ==
  /\ cpc = "start"
  /\ codec_wire' = serialize_delta_data(codec_in)
  /\ cpc' = "serialized"
  /\ UNCHANGED <<frameVars, mainVars, sendVars, treeVars, codec_in, codec_out>>

Deserialize ==
  /\ cpc = "serialized"
  /\ codec_wire # ValueError
  /\ codec_out' = deserialize_delta_data(codec_wire)
  /\ cpc' = "done"
  /\ UNCHANGED <<frameVars, mainVars, sendVars, treeVars, codec_in, codec_wire>>

Parse ==
  /\ cpc = "start"
  /\ codec_out' = deserialize_delta_data(codec_in)
  /\ cpc' = "parsed"
  /\ UNCHANGED <<frameVars, mainVars, sendVars, treeVars, codec_in, codec_wire>>

NextCodec == Serialize \/ Deserialize \/ Parse

SpecCodec == InitCodec /\ [][NextCodec]_vars

\* X and Y connected and synchronized, both holding a/b with its signature
\* stored; files are written and removed and subdirectories made on both
\* sides while the updates of the other side come in.
InitTree ==
  /\ InitMove
  /\ \A p \in Procs : files[p]["a/b"].exists /\ sigs[p]["a/b"].exists
  /\ ignore_events["X"]["a/b"] \in {0, Start - IGNORE_WINDOW}

\* what a local write may leave in a file then
TreeContents == {<<2, 1>>}

WriteTree ==
  \E p \in Procs, path \in TreePaths, c \in TreeContents : LocalWrite(p, path, c)

Mkdir ==
  \E p \in Procs, path \in TreePaths : LocalMkdir(p, dirname(path))

NextTree == WriteTree \/ Mkdir \/ Remove \/ Watcher \/ Updates

SpecTree == InitTree /\ [][NextTree]_vars

\* Two processes just started, each with its copy of the file, the one of X
\* the newer; Y is the one whose file is removed while the sessions are set
\* up.
InitPatch ==
  /\ InitSync
  /\ \A path \in Paths :
       /\ files["X"][path] = File(<<2, 1>>, 2)
       /\ files["Y"][path] = File(<<1, 2>>, 1)

RemoveFlat ==
  \E path \in Paths : LocalDelete("Y", path)

NextPatch == Registry \/ Receiver \/ DropEcho \/ RemoveFlat

SpecPatch == InitPatch /\ [][NextPatch]_vars

\* One connection, byte by byte: at most MaxFrames messages are sent on it,
\* and every socket.recv of the other end returns some of the bytes that
\* have arrived, at least one and at most RECV_SIZE.
FrameMessages == {<<1>>, <<2, 1>>}

InitFrame ==
  /\ Started
  /\ CodecIdle
  /\ FrameIdle
  /\ \A p \in Procs, path \in Paths : ~files[p][path].exists

\* Node.send_message: sendall writes the length prefix and the compressed
\* message
send_frame(message) ==
  /\ Len(sent) < MaxFrames
  /\ stream' = stream \o Frame(message)
  /\ sent' = Append(sent, message)
  /\ UNCHANGED <<mainVars, sendVars, treeVars, codecVars, buffer, rpc,
                 message_length, received>>

\* self.buffer += self.socket.recv(4096), in either loop of receive_message
recv(k) ==
  /\ \/ rpc = "prefix" /\ Len(buffer) < HEADER
     \/ rpc = "body" /\ Len(buffer) < message_length
  /\ k <= Len(stream) /\ k <= RECV_SIZE
  /\ buffer' = buffer \o SubSeq(stream, 1, k)
  /\ stream' = SubSeq(stream, k + 1, Len(stream))
  /\ UNCHANGED <<mainVars, sendVars, treeVars, codecVars, rpc, message_length,
                 sent, received>>

\* the length prefix is there: it is cut off the buffer and unpacked
read_prefix ==
  /\ rpc = "prefix"
  /\ Len(buffer) >= HEADER
  /\ message_length' = unpack(SubSeq(buffer, 1, HEADER))
  /\ buffer' = TailFrom(buffer, HEADER)
  /\ rpc' = "body"
  /\ UNCHANGED <<mainVars, sendVars, treeVars, codecVars, stream, sent, received>>

\* the body is there: it is cut off the buffer, decompressed and parsed, and
\* receive_message returns the message; a body that does not decompress
\* closes the connection
read_body ==
  /\ rpc = "body"
  /\ Len(buffer) >= message_length
  /\ LET message_body == SubSeq(buffer, 1, message_length)
     IN /\ buffer' = TailFrom(buffer, message_length)
        /\ IF CanDecompress(message_body)
           THEN /\ received' = Append(received, loads(decompress(message_body)))
                /\ rpc' = "prefix"
           ELSE /\ rpc' = "closed"
                /\ UNCHANGED received
  /\ UNCHANGED <<mainVars, sendVars, treeVars, codecVars, stream, message_length,
                 sent>>

Send == \E message \in FrameMessages : send_frame(message)

Recv == \E k \in 1..(MaxFrames + 1) * 16 : recv(k)

NextFrame == Send \/ Recv \/ read_prefix \/ read_body

SpecFrame == InitFrame /\ [][NextFrame]_vars

\* The watcher of X alone: X and Y connected and synchronized, both holding
\* f with its signature stored.  The watchers were made just now or
\* IGNORE_WINDOW ticks ago, and X may have got f from Y then.  At X the file
\* f and its backup f~ are written, removed and renamed into each other; the
\* receive threads are not followed.
BackupPaths == {"f", "f~"}

InitWatch ==
  /\ now = Start
  /\ mclock = MaxMtime
  /\ writes = 0
  /\ files = [p \in Procs |-> [path \in BackupPaths |->
                IF path = "f" THEN TreeFile ELSE NoFile]]
  /\ sigs = [p \in Procs |-> [path \in BackupPaths |->
               IF path = "f" THEN TreeSig ELSE NoSig]]
  /\ \E t \in {0, Start - IGNORE_WINDOW} :
       ignore_events = [p \in Procs |-> [path \in BackupPaths |->
                          IF p = "X" /\ path = "f" THEN t ELSE 0]]
  /\ \E made \in {Start - IGNORE_WINDOW, Start} :
       last_trigger_time = [p \in Procs |-> made]
  /\ events = [p \in Procs |-> <<>>]
  /\ wpc = [p \in Procs |-> "idle"]
  /\ wev = [p \in Procs |-> NoEvent]
  /\ nodes = [p \in Procs |->
                {[ip |-> Peer(p), conn |-> 1,
                  port |-> IF p = "X" THEN ListenPort ELSE 50001]}]
  /\ reglock = [p \in Procs |-> 0]
  /\ peer = [p \in Procs |-> [c \in Conns |->
               IF c = 1
               THEN [state |-> "open", ip |-> Peer(p),
                     port |-> IF p = "X" THEN ListenPort ELSE 50001,
                     is_synchronized |-> TRUE]
               ELSE NoPeer]]
  /\ inbox = [p \in Procs |-> [c \in Conns |-> <<>>]]
  /\ acceptQ = [p \in Procs |-> <<>>]
  /\ conn = [c \in Conns |-> IF c = 1 THEN [init |-> "X", port |-> 50001] ELSE NoConn]
  /\ beacons = 0
  /\ files0 = files
  /\ handled_ds = [p \in Procs |-> [c \in Conns |-> c = 1]]
  /\ broadcasts = [p \in Procs |-> 0]
  /\ echoed = "no"
  /\ SendIdle
  /\ FlatTree
  /\ CodecIdle
  /\ FrameIdle

WriteBackup ==
  \E path \in BackupPaths, c \in TreeContents : LocalWrite("X", path, c)

RemoveBackup ==
  \E path \in BackupPaths : LocalDelete("X", path)

MoveBackup ==
  \E src \in BackupPaths, dst \in BackupPaths :
    src # dst /\ LocalMove("X", src, dst)

NextWatch == WriteBackup \/ RemoveBackup \/ MoveBackup \/ Tick \/ Watcher

SpecWatch == InitWatch /\ [][NextWatch]_vars

\* Y joins X as in SpecSync, and the watcher of a process handles the event
\* of a local write only while a session of that process is registered and
\* not yet synchronized.
MidHandshake(p) ==
  \E c \in Conns :
    /\ \E e \in nodes[p] : e.conn = c
    /\ ~peer[p][c].is_synchronized

WatcherMidHandshake ==
  \E p \in Procs :
    /\ events[p] # <<>>
    /\ Head(events[p]).cause = "local" => MidHandshake(p)
    /\ should_ignore(p)

NextHandshake == Registry \/ Receiver \/ WatcherMidHandshake \/ WriteJoin

SpecHandshake == InitJoin /\ [][NextHandshake]_vars


\* ------------------------------------------------------------------ claims
\* nothing is pending anywhere: no event, no frame, no connection to accept,
\* no session being added
Quiescent ==
  /\ \A p \in Procs : events[p] = <<>> /\ wpc[p] = "idle"
  /\ \A p \in Procs : acceptQ[p] = <<>> /\ reglock[p] = 0
  /\ \A p \in Procs, c \in Conns : inbox[p][c] = <<>>

HaveConnected == \E c \in Conns : conn[c].init # "-"

\* C2: two processes that hold a file with different contents connect; once
\* the DIRECTORY_STATE / DELTA_TRANSFER exchange is over both hold the content
\* of the copy with the larger mtime, and with equal mtimes both copies are
\* as they were.
C2_ConflictByMtime ==
  (Quiescent /\ HaveConnected) =>
    \A path \in Paths :
      LET x == files0["X"][path]
          y == files0["Y"][path]
          newest == IF x.mtime > y.mtime THEN x ELSE y
      IN (x.exists /\ y.exists /\ x.content # y.content) =>
           IF x.mtime = y.mtime
           THEN files["X"][path] = x /\ files["Y"][path] = y
           ELSE \A p \in Procs : files[p][path].content = newest.content


\* C3: Y starts with an empty directory and connects to X; once everything
\* is handled Y holds each file of X with X's content and X's mtime, and the
\* directory of X is as it was.
C3_ColdBootstrap ==
  (Quiescent /\ HaveConnected /\ \A path \in Paths : ~files0["Y"][path].exists) =>
    /\ files["X"] = files0["X"]
    /\ \A path \in Paths :
         files0["X"][path].exists => files["Y"][path] = files0["X"][path]

C3_Witness ==
  /\ Quiescent /\ HaveConnected
  /\ ~files0["Y"]["f"].exists
  /\ files0["X"]["f"].exists /\ files0["X"]["f"].mtime < mclock
  /\ files["Y"]["f"] = files0["X"]["f"]

\* the frame at the end of the frames in flight to q on c was put there by
\* this step
Sent(q, c) ==
  /\ Len(inbox'[q][c]) = Len(inbox[q][c]) + 1
  /\ inbox'[q][c] = Append(inbox[q][c], inbox'[q][c][Len(inbox'[q][c])])

IsRegistered(p, c) == \E e \in nodes[p] : e.conn = c

\* C6: a call of broadcast_update by p puts one MODIFICATION_UPDATE on each
\* session of p's registry whose is_synchronized is true and nothing on any
\* other session.
C6_BroadcastToSynchronized ==
  [][\A p \in Procs :
       broadcasts'[p] # broadcasts[p] =>
         \A c \in Conns :
           IF IsRegistered(p, c) /\ peer[p][c].is_synchronized
           THEN /\ Sent(Peer(p), c)
                /\ inbox'[Peer(p)][c][Len(inbox'[Peer(p)][c])].type
                     = "MODIFICATION_UPDATE"
           ELSE inbox'[Peer(p)][c] = inbox[Peer(p)][c]]_vars

HasUpdate(q, c) ==
  \E i \in 1..Len(inbox[q][c]) : inbox[q][c][i].type = "MODIFICATION_UPDATE"

\* p has broadcast once, with one session synchronized and another not yet
C6_Witness ==
  \E p \in Procs, c1 \in Conns, c2 \in Conns :
    /\ broadcasts[p] = 1
    /\ HasUpdate(Peer(p), c1)
    /\ IsRegistered(p, c2) /\ ~peer[p][c2].is_synchronized
    /\ ~HasUpdate(Peer(p), c2)

\* C7: a process that is about to handle a MODIFICATION_UPDATE on a session
\* has handled a DIRECTORY_STATE on that session and its is_synchronized for
\* the session is true.
C7_HandshakeBeforeUpdates ==
  \A p \in Procs, c \in Conns :
    Receives(p, c, "MODIFICATION_UPDATE") =>
      handled_ds[p][c] /\ peer[p][c].is_synchronized

C7_Witness ==
  \E p \in Procs, c \in Conns :
    Receives(p, c, "MODIFICATION_UPDATE") /\ handled_ds[p][c]

\* C1: X writes one file several times, with increasing mtimes, while Y is
\* connected and synchronized; once no event and no frame is pending Y's copy
\* has the content X's copy has.
C1_LiveConvergence ==
  (Quiescent /\ writes > 0) =>
    \A path \in Paths : files["Y"][path].content = files["X"][path].content

\* C4: the event that a write of the receive thread raises, handled inside
\* the window of its own entry, is never broadcast.
C4_NoEcho == echoed # "yes"

\* the watcher of p takes an event off its queue in this step
TakesEvent(p) == wpc[p] = "idle" /\ Len(events'[p]) < Len(events[p])

\* nothing of what a handler does happens in this step
NothingHandled(p) ==
  /\ broadcasts'[p] = broadcasts[p]
  /\ last_trigger_time'[p] = last_trigger_time[p]
  /\ sigs'[p] = sigs[p]
  /\ inbox' = inbox

\* on_created / on_modified run on e in this step
Handled(p, e) ==
  IF e.kind = "modified" /\ ~(now - last_trigger_time[p] > DEBOUNCE)
  THEN NothingHandled(p)
  ELSE /\ e.kind = "modified" => last_trigger_time'[p] = now
       /\ files[p][e.src].exists => broadcasts'[p] = broadcasts[p] + 1

\* C5: with an entry for the path recorded at T, an event handled before
\* T + 500 ms is dropped and the entry stays; an event handled at T + 500 ms
\* or later has the entry removed and the handler run on it.
C5_EchoGuardWindow ==
  [][\A p \in Procs :
       /\ TakesEvent(p) =>
            LET e == Head(events[p])
                T == ignore_events[p][e.src]
            IN T # 0 =>
                 IF now < T + IGNORE_WINDOW
                 THEN /\ ignore_events'[p] = ignore_events[p]
                      /\ wpc'[p] = "idle"
                      /\ NothingHandled(p)
                 ELSE /\ wpc'[p] = "evict" /\ wev'[p] = e
                      /\ NothingHandled(p)
       /\ (wpc[p] = "evict" /\ wpc'[p] # "evict") =>
            /\ ignore_events'[p][wev[p].src] = 0
            /\ Handled(p, wev[p])]_vars

\* the watcher took an event at exactly T + 500 ms and is about to remove the
\* entry
C5_Witness ==
  \E p \in Procs :
    /\ wpc[p] = "evict"
    /\ ignore_events[p][wev[p].src] # 0
    /\ now = ignore_events[p][wev[p].src] + IGNORE_WINDOW

\* the sessions of p whose socket is open
LiveSessions(p) == {c \in Conns : peer[p][c].state = "open"}

UniqueIdentities ==
  \A p \in Procs :
    /\ Cardinality(NodeIds(p)) = Cardinality(nodes[p])
    /\ \A c1 \in LiveSessions(p), c2 \in LiveSessions(p) :
         <<peer[p][c1].ip, peer[p][c1].port>> = <<peer[p][c2].ip, peer[p][c2].port>>
           => c1 = c2

\* p opens no connection and changes neither its registry nor its sessions
RegistersNothing(p) ==
  /\ nodes'[p] = nodes[p]
  /\ peer'[p] = peer[p]
  /\ reglock'[p] = reglock[p]
  /\ \A c \in Conns : conn'[c].init = p => conn'[c] = conn[c]

\* C8: no two live sessions of a process have the same identity (ip, port),
\* and connect_to_node and handle_incoming_connection on an identity that is
\* in the registry open nothing, register nothing and leave the registry as
\* it is.
C8_RegistryUniqueness ==
  /\ []UniqueIdentities
  /\ [][\A p \in Procs :
          /\ (beacons' # beacons /\ Registered(p, Peer(p), ListenPort))
               => RegistersNothing(p)
          /\ (Len(acceptQ'[p]) < Len(acceptQ[p])
                /\ Registered(p, conn[Head(acceptQ[p])].init,
                              conn[Head(acceptQ[p])].port))
               => RegistersNothing(p)]_vars

\* X has reconnected from the port of a session that Y still has registered,
\* and Y has left the new connection alone
C8_Witness ==
  \E c1 \in Conns, c2 \in Conns :
    /\ c1 # c2
    /\ conn[c1].init = "X" /\ conn[c2].init = "X" /\ conn[c1].port = conn[c2].port
    /\ [ip |-> "X", port |-> conn[c1].port, conn |-> c1] \in nodes["Y"]
    /\ peer["Y"][c1].state = "open"
    /\ peer["Y"][c2].state = "none"
    /\ acceptQ["Y"] = <<>>
    /\ beacons = MaxBeacons

\* the piece of a frame that belongs at position i of the wire when whole
\* frames follow each other in the order of their sends
Expected(i) ==
  <<order[((i - 1) \div ChunksPerFrame) + 1], ((i - 1) % ChunksPerFrame) + 1>>

\* C9: at most one thread is in sendall on a session, and what is on the wire
\* is the frames, whole and one after the other, in the order in which their
\* sends got the lock.
C9_SendSerialized ==
  /\ Cardinality({t \in Threads : tpc[t] = "write"}) <= 1
  /\ Len(wire) <= Len(order) * ChunksPerFrame
  /\ \A i \in 1..Len(wire) : wire[i] = Expected(i)

\* a whole frame is on the wire, a thread is in sendall and the thread that
\* called send_message first still waits for the lock
C9_Witness ==
  /\ Len(wire) >= ChunksPerFrame
  /\ \E t1 \in Threads, t2 \in Threads :
       tpc[t1] = "write" /\ tpc[t2] = "acquire" /\ tframe[t2] < tframe[t1]

\* C10: a send_message call whose write raised returns, with the socket
\* closed and stop_event set.
C10_SendFailureCloses ==
  \A t \in Threads :
    (tpc[t] = "except") ~> (tpc[t] = "idle" /\ socket = "closed" /\ stop_event)

\* the receive loop has ended: receive_message raised
ReceiveFailed == tpc["receiver"] \in {"close_in_listen", "done"}

\* C11: once receive_message of a session has failed, the socket gets closed
\* and the session leaves the registry, and the receive thread handles no
\* further message.
C11_TeardownOnReceiveFailure ==
  /\ ReceiveFailed ~> (socket = "closed" /\ ~in_registry)
  /\ [][ReceiveFailed =>
          /\ synced' = synced
          /\ tframe'["receiver"] = tframe["receiver"]]_vars

\* C12: a thread that holds the registry lock is not walking the directory
\* and is not inside a send on a socket.
C12_NoLockAcrossIO ==
  \A t \in Threads :
    mlock = t => mpc[t] # "walk" /\ tpc[t] \notin {"acquire", "write"}

\* C16: a thread that has taken the registry lock or the lock of the Node
\* gives it back.
C16_LocksReleased ==
  \A t \in Threads :
    /\ (mlock = t) ~> (mlock # t)
    /\ (lock = t) ~> (lock # t)

\* the watcher of p takes an event of this kind off its queue in this step
Takes(p, kind) == TakesEvent(p) /\ Head(events[p]).kind = kind

\* the watcher of p, having removed an expired entry, runs the handler of an
\* event of this kind in this step
Resumes(p, kind) == wpc[p] = "evict" /\ wpc'[p] # "evict" /\ wev[p].kind = kind

\* the frame this step put on connection c towards q
LastSent(q, c) == inbox'[q][c][Len(inbox'[q][c])].payload

\* p calls broadcast_update in this step and every synchronized session of
\* its registry gets a MODIFICATION_UPDATE with this action for this path
Broadcasts(p, action, path) ==
  /\ broadcasts'[p] = broadcasts[p] + 1
  /\ \A c \in Conns :
       (IsRegistered(p, c) /\ peer[p][c].is_synchronized) =>
         /\ Sent(Peer(p), c)
         /\ LastSent(Peer(p), c).action = action
         /\ LastSent(Peer(p), c).file_path = path

\* on_deleted has done its work on the path in this step
DeleteBroadcast(p, path) ==
  ~sigs'[p][path].exists /\ Broadcasts(p, "DELETE", path)

\* the receive thread of p handles an update with this action in this step
Handles(p, c, action) ==
  /\ Receives(p, c, "MODIFICATION_UPDATE")
  /\ Head(inbox[p][c]).payload.action = action
  /\ inbox'[p][c] = Tail(inbox[p][c])

\* after the DELETE is handled neither the file nor its signature is there
DeleteApplied(p, c) ==
  Handles(p, c, "DELETE") =>
    LET path == Head(inbox[p][c]).payload.file_path
    IN ~files'[p][path].exists /\ ~sigs'[p][path].exists

\* C13 as stated: whenever the watcher of a process takes the event of a
\* local removal of P, the process removes its signature of P and broadcasts
\* DELETE to its synchronized sessions (at once, or after removing an expired
\* echo-guard entry), and a process that handles a DELETE has neither P nor
\* the signature of P afterwards.
C13_DeleteAlwaysPropagates ==
  [][\A p \in Procs :
       /\ (Takes(p, "deleted") /\ Head(events[p]).cause = "local") =>
            \/ DeleteBroadcast(p, Head(events[p]).src)
            \/ wpc'[p] = "evict" /\ wev'[p] = Head(events[p])
       /\ Resumes(p, "deleted") => DeleteBroadcast(p, wev[p].src)
       /\ \A c \in Conns : DeleteApplied(p, c)]_vars

\* C13, amended: the same for the removal events taken when the echo guard
\* has no entry for P or one that is 500 ms old or older.  (An event taken
\* inside the window of an entry is dropped, whatever raised it.)
C13_DeletePropagation ==
  [][\A p \in Procs :
       /\ Takes(p, "deleted") =>
            LET e == Head(events[p])
                T == ignore_events[p][e.src]
            IN IF T = 0 THEN DeleteBroadcast(p, e.src)
               ELSE now >= T + IGNORE_WINDOW =>
                      wpc'[p] = "evict" /\ wev'[p] = e
       /\ Resumes(p, "deleted") => DeleteBroadcast(p, wev[p].src)
       /\ \A c \in Conns : DeleteApplied(p, c)]_vars

\* X has removed a/b and broadcast the DELETE, and Y is about to handle it
\* with the signature of a/b in its store and no file a/b
C13_Witness ==
  /\ ~files["X"]["a/b"].exists /\ ~sigs["X"]["a/b"].exists
  /\ broadcasts["X"] = 1
  /\ Receives("Y", 1, "MODIFICATION_UPDATE")
  /\ Head(inbox["Y"][1]).payload.action = "DELETE"
  /\ ~files["Y"]["a/b"].exists /\ sigs["Y"]["a/b"].exists

\* C14: a process that handles a RENAME of P to Q while it holds P and the
\* signature of P has afterwards Q with the content and mtime P had and no P,
\* the signature P had stored for Q and none for P, and the directories of Q
\* and of its signature exist.
C14_RenamePropagation ==
  [][\A p \in Procs, c \in Conns :
       Handles(p, c, "RENAME") =>
         LET P == Head(inbox[p][c]).payload.file_path
             Q == Head(inbox[p][c]).payload.dest_path
         IN (files[p][P].exists /\ sigs[p][P].exists) =>
              /\ files'[p][Q] = files[p][P] /\ ~files'[p][P].exists
              /\ sigs'[p][Q] = sigs[p][P] /\ ~sigs'[p][P].exists
              /\ dirname(Q) \in dirs'[p] /\ dirname(Q) \in sigdirs'[p]]_vars

\* X has renamed a/b to c/d and Y, which had no directory c, has handled the
\* RENAME: its receive thread moved the file and the signature
C14_Witness ==
  /\ moves = 1 /\ broadcasts["X"] = 1
  /\ files["X"]["c/d"].exists
  /\ \E i \in 1..Len(events["Y"]) : events["Y"][i].kind = "moved"
                                      /\ events["Y"][i].cause = "remote"
  /\ files["Y"]["c/d"] = TreeFile /\ ~files["Y"]["a/b"].exists
  /\ sigs["Y"]["c/d"] = TreeSig /\ ~sigs["Y"]["a/b"].exists
  /\ "c" \in dirs["Y"] /\ "c" \in sigdirs["Y"]

\* the items of a list that have one of these types
OnlyTypes(list, tags) == \A i \in 1..Len(list) : list[i].tag \in tags

\* C15: a list of ints and bytes that was serialized and deserialized again
\* is the list it was, item for item; a list with an item that is neither
\* int nor bytes makes serialize_delta_data raise, and one with an item that
\* is neither int nor str makes deserialize_delta_data raise.
C15_DeltaRoundTrip ==
  /\ cpc \in {"serialized", "done"} =>
       IF OnlyTypes(codec_in, {"int", "bytes"})
       THEN /\ codec_wire # ValueError
            /\ Len(codec_wire) = Len(codec_in)
            /\ OnlyTypes(codec_wire, {"int", "str"})
       ELSE codec_wire = ValueError
  /\ cpc = "done" =>
       /\ Len(codec_out) = Len(codec_in)
       /\ \A i \in 1..Len(codec_in) : codec_out[i] = codec_in[i]
  /\ cpc = "parsed" =>
       IF OnlyTypes(codec_in, {"int", "str"})
       THEN codec_out # ValueError
       ELSE codec_out = ValueError

\* a block reference and a chunk of two blocks have made the round trip
C15_Witness ==
  /\ cpc = "done"
  /\ codec_in = <<BlockRef(1), Literal(<<1, 2>>)>>
  /\ codec_wire = <<BlockRef(1), Str(b64encode(<<1, 2>>))>>

\* the entry makes its receiver patch the file it has: a delta that is not
\* marked as a full file and not empty, a base to patch
Patches(file, has_baseline, entry) ==
  /\ ~entry.is_full_file
  /\ deserialize_delta_data(entry.delta) # <<>>
  /\ ApplyEntry(file, has_baseline, entry).kind = "written"

\* C17: a process about to patch its file P with the delta of a
\* DELTA_TRANSFER or of a MODIFICATION_UPDATE holds the content whose
\* signature the sender computed the delta against.
C17_DeltaBaseAgreement ==
  \A p \in Procs, c \in Conns :
    /\ Receives(p, c, "DELTA_TRANSFER") =>
         \A path \in Paths :
           LET entry == Head(inbox[p][c]).payload[path]
           IN (entry.present
                 /\ Patches(files[p][path], DeltaTransferBaseline(p, path), entry))
                => compute_signature(files[p][path].content) = entry.base
    /\ (Receives(p, c, "MODIFICATION_UPDATE")
          /\ Head(inbox[p][c]).payload.action \in {"MODIFY", "CREATE"}) =>
         LET payload == Head(inbox[p][c]).payload
             path == payload.file_path
         IN Patches(files[p][path], ModificationBaseline(p, path), payload)
              => compute_signature(files[p][path].content) = payload.base

\* C18: a process that handles a MODIFICATION_UPDATE with action CREATE or
\* MODIFY whose mtime is older than the mtime of its own copy of the file
\* keeps the content and the mtime of its copy.
C18_NewestMtimeWins ==
  [][\A p \in Procs, c \in Conns :
       (Handles(p, c, "MODIFY") \/ Handles(p, c, "CREATE")) =>
         LET payload == Head(inbox[p][c]).payload
             path == payload.file_path
         IN (files[p][path].exists /\ payload.mtime < files[p][path].mtime)
              => files'[p][path] = files[p][path]]_vars

\* the receive thread of p handles a DIRECTORY_STATE in this step
HandlesDirectoryState(p, c) ==
  /\ Receives(p, c, "DIRECTORY_STATE")
  /\ inbox'[p][c] = Tail(inbox[p][c])

\* the entry is the whole file as one chunk, marked as a full file
IsFullFile(entry, file) ==
  /\ entry.present /\ entry.is_full_file
  /\ deserialize_delta_data(entry.delta) = <<Literal(file.content)>>
  /\ entry.mtime = file.mtime

\* the entry is the delta of the file against the signature, not marked as a
\* full file
IsDelta(entry, file, signature) ==
  /\ entry.present /\ ~entry.is_full_file
  /\ deserialize_delta_data(entry.delta) = generate_delta(signature, file.content)
  /\ entry.mtime = file.mtime

\* the path belongs in the DELTA_TRANSFER
ToSend(file, remote_file) ==
  file.exists /\ (remote_file.present => file.mtime > remote_file.mtime)

\* what handle_directory_state does in this step, given what an entry for a
\* file on both sides has to look like
Reconciles(p, c, BothSides(_, _, _)) ==
  LET remote_state == Head(inbox[p][c]).payload
      out == inbox'[Peer(p)][c]
  IN /\ IF \E path \in Paths : ToSend(files[p][path], remote_state[path])
        THEN /\ Sent(Peer(p), c)
             /\ out[Len(out)].type = "DELTA_TRANSFER"
             /\ \A path \in Paths :
                  LET entry == out[Len(out)].payload[path]
                      file == files[p][path]
                  IN IF ~ToSend(file, remote_state[path]) THEN ~entry.present
                     ELSE IF ~remote_state[path].present THEN IsFullFile(entry, file)
                     ELSE BothSides(entry, file, remote_state[path].signature)
        ELSE out = inbox[Peer(p)][c]
     /\ ~peer[p][c].is_synchronized
     /\ peer'[p][c].is_synchronized

BothSidesAsStated(entry, file, signature) == IsDelta(entry, file, signature)

BothSidesAmended(entry, file, signature) ==
  IF signature # <<>> THEN IsDelta(entry, file, signature)
  ELSE IsFullFile(entry, file)

\* no session is synchronized before it has handled a DIRECTORY_STATE
SynchronizedAfterHandshake ==
  \A p \in Procs, c \in Conns : peer[p][c].is_synchronized => handled_ds[p][c]

\* C19 as stated: the DELTA_TRANSFER sent for a DIRECTORY_STATE holds the
\* paths that exist only locally, each as a full file in one chunk, and the
\* paths on both sides whose local mtime is greater, each as a delta against
\* the remote signature and not marked as a full file; no other path; it is
\* not sent when it would be empty; and is_synchronized becomes true in this
\* step and not before.
C19_ReconciliationAsStated ==
  /\ []SynchronizedAfterHandshake
  /\ [][\A p \in Procs, c \in Conns :
          HandlesDirectoryState(p, c) => Reconciles(p, c, BothSidesAsStated)]_vars

\* C19, amended: the same, except that a path on both sides whose remote
\* copy is empty (its signature has no blocks) is sent like a path that
\* exists only locally: as a full file in one chunk, marked as a full file.
C19_ReconciliationDecision ==
  /\ []SynchronizedAfterHandshake
  /\ [][\A p \in Procs, c \in Conns :
          HandlesDirectoryState(p, c) => Reconciles(p, c, BothSidesAmended)]_vars

\* a DELTA_TRANSFER with a delta against a remote signature is in flight,
\* sent by a process whose copy was the newer one
C19_Witness ==
  \E p \in Procs, c \in Conns :
    /\ handled_ds[Peer(p)][c]
    /\ Receives(p, c, "DELTA_TRANSFER")
    /\ ~Head(inbox[p][c]).payload["f"].is_full_file
    /\ files0[p]["f"].exists
    /\ files0[p]["f"].mtime < files0[Peer(p)]["f"].mtime

\* the sessions in the registry of p whose socket is open and whose remote
\* end is the process q
SessionsWith(p, q) ==
  {e \in nodes[p] : e.ip = q /\ peer[p][e.conn].state = "open"}

\* C20: the registry of a process holds at most one live session with the
\* other process.
C20_OneSessionPerPair ==
  \A p \in Procs : Cardinality(SessionsWith(p, Peer(p))) <= 1

\* every session that was opened has finished its handshake on both ends
HandshakesDone ==
  \A c \in Conns :
    conn[c].init # "-" =>
      \A p \in Procs : peer[p][c].state = "open" /\ peer[p][c].is_synchronized

\* C21: a file of X written while a session with Y is being set up, its
\* event handled by the watcher of X before the session is synchronized, is
\* not lost: once the handshakes are over and no event, frame or connection
\* is pending, Y holds the file with a content a local write left in it
\* (no directory starts with such a content).
C21_NoUpdateLostDuringHandshake ==
  (Quiescent /\ HaveConnected /\ HandshakesDone /\ writes > 0) =>
    \A path \in Paths :
      /\ files["Y"][path].exists
      /\ files["Y"][path].content \in JoinContents

\* the entry carries a delta to patch the file with: not marked as a full
\* file and not empty
NonFullDelta(entry) ==
  ~entry.is_full_file /\ deserialize_delta_data(entry.delta) # <<>>

\* C22: a process without a stored signature for P that handles a
\* DELTA_TRANSFER entry or a MODIFICATION_UPDATE (CREATE / MODIFY) for P whose
\* delta is not empty and not marked as a full file leaves the file P and the
\* signature store as they are, and its session stays open.
C22_NoBaselineSkipped ==
  [][\A p \in Procs, c \in Conns :
       /\ (Receives(p, c, "DELTA_TRANSFER") /\ inbox'[p][c] = Tail(inbox[p][c])) =>
            \A path \in DOMAIN files[p] :
              LET entry == Head(inbox[p][c]).payload[path]
              IN (entry.present /\ NonFullDelta(entry) /\ ~sigs[p][path].exists)
                   => /\ files'[p][path] = files[p][path]
                      /\ sigs'[p] = sigs[p]
                      /\ peer'[p][c].state = "open"
       /\ (Handles(p, c, "MODIFY") \/ Handles(p, c, "CREATE")) =>
            LET payload == Head(inbox[p][c]).payload
                path == payload.file_path
            IN (NonFullDelta(payload) /\ ~sigs[p][path].exists)
                 => /\ files'[p][path] = files[p][path]
                    /\ sigs'[p] = sigs[p]
                    /\ peer'[p][c].state = "open"]_vars

\* C24: a process that handles a DELTA_TRANSFER entry or a MODIFICATION_UPDATE
\* (CREATE / MODIFY) that carries a whole file P, and has not got the
\* directory of P, has the directory and the file P afterwards.
C24_ParentDirectoriesOnApply ==
  [][\A p \in Procs, c \in Conns :
       /\ (Receives(p, c, "DELTA_TRANSFER") /\ inbox'[p][c] = Tail(inbox[p][c])) =>
            \A path \in DOMAIN files[p] :
              LET entry == Head(inbox[p][c]).payload[path]
              IN (entry.present /\ entry.is_full_file /\ ~CanOpen(dirs[p], path))
                   => CanOpen(dirs'[p], path) /\ files'[p][path].exists
       /\ (Handles(p, c, "MODIFY") \/ Handles(p, c, "CREATE")) =>
            LET payload == Head(inbox[p][c]).payload
                path == payload.file_path
            IN (payload.is_full_file /\ ~CanOpen(dirs[p], path))
                 => CanOpen(dirs'[p], path) /\ files'[p][path].exists]_vars

\* apply_delta raises for this entry of a DELTA_TRANSFER: a delta to patch
\* with, a signature stored, the base file gone
ApplyFails(p, path, entry) ==
  /\ entry.present
  /\ NonFullDelta(entry)
  /\ DeltaTransferBaseline(p, path)
  /\ apply_delta(files[p][path], deserialize_delta_data(entry.delta)).raised

\* C23: when apply_delta fails for an entry of a DELTA_TRANSFER or for a
\* MODIFICATION_UPDATE, the file is as it was, no temporary file is left,
\* mtime and stored signature are not updated, and the session stays open
\* with the message consumed: the receive loop goes on.
C23_FailedApplyLeavesState ==
  [][\A p \in Procs, c \in Conns :
       /\ (Receives(p, c, "DELTA_TRANSFER") /\ inbox'[p][c] = Tail(inbox[p][c])) =>
            \A path \in Paths :
              ApplyFails(p, path, Head(inbox[p][c]).payload[path])
                => /\ files'[p][path] = files[p][path]
                   /\ sigs'[p][path] = sigs[p][path]
                   /\ temps'[p] = 0
                   /\ peer'[p][c].state = "open"
       /\ (Handles(p, c, "MODIFY") \/ Handles(p, c, "CREATE")) =>
            LET payload == Head(inbox[p][c]).payload
                path == payload.file_path
            IN (NonFullDelta(payload) /\ ModificationBaseline(p, path)
                  /\ apply_delta(files[p][path],
                                 deserialize_delta_data(payload.delta)).raised)
                 => /\ files'[p][path] = files[p][path]
                    /\ sigs'[p][path] = sigs[p][path]
                    /\ temps'[p] = 0
                    /\ peer'[p][c].state = "open"]_vars

\* Y has handled a DELTA_TRANSFER whose delta it could not apply: the file
\* it was computed for is gone, its signature is still stored, the session
\* is open
C23_Witness ==
  /\ moves > 0
  /\ ~files["Y"]["f"].exists
  /\ sigs["Y"]["f"] = save_signature(compute_signature(<<1, 2>>))
  /\ ignore_events["Y"]["f"] # 0
  /\ temps["Y"] = 0
  /\ \E c \in Conns :
       /\ handled_ds["X"][c]
       /\ peer["Y"][c].state = "open"
       /\ inbox["Y"][c] = <<>>
       /\ peer["X"][c].is_synchronized

\* C25: whatever way the bytes of the frames are split over the reads, the
\* messages receive_message has returned are the first of the messages sent,
\* in their order, each once; and with no byte left in the connection or in
\* the buffer, every message sent has been returned.
C25_FramingIndependentOfSegmentation ==
  /\ rpc # "closed"
  /\ Len(received) <= Len(sent)
  /\ received = SubSeq(sent, 1, Len(received))
  /\ (stream = <<>> /\ buffer = <<>> /\ rpc = "prefix") => received = sent

\* one read brought the end of the first frame together with the whole of
\* the second: the first message was returned, the second is in the buffer
C25_Witness ==
  /\ Len(sent) = 2
  /\ received = <<sent[1]>>
  /\ rpc = "prefix"
  /\ stream = <<>>
  /\ buffer = Frame(sent[2])

\* should_ignore has returned False for an event of p and its handler runs
\* in this step, and the event it runs on
HandlerRuns(p) ==
  \/ TakesEvent(p) /\ ignore_events[p][Head(events[p]).src] = 0
  \/ wpc[p] = "evict" /\ wpc'[p] # "evict"

HandledEvent(p) == IF wpc[p] = "idle" THEN Head(events[p]) ELSE wev[p]

\* 100 ms or less since the last MODIFY that was let through, or since the
\* watcher was made
Recent(p) == now - last_trigger_time[p] <= DEBOUNCE

\* C26: a MODIFY event handled 100 ms or less after the last MODIFY that was
\* processed, or after the watcher was made, is dropped: no signature is
\* stored, nothing is broadcast, the timer stays.  A MODIFY that is processed
\* comes more than 100 ms after the last one, whatever the path, and restarts
\* the timer.  CREATE, DELETE and RENAME events leave the timer alone and are
\* processed however recent the last MODIFY is.
C26_ModifyDebounce ==
  [][\A p \in Procs :
       HandlerRuns(p) =>
         LET e == HandledEvent(p)
         IN /\ (e.kind = "modified" /\ Recent(p)) => NothingHandled(p)
            /\ (e.kind = "modified" /\ ~NothingHandled(p))
                 => ~Recent(p) /\ last_trigger_time'[p] = now
            /\ e.kind # "modified" =>
                 /\ last_trigger_time'[p] = last_trigger_time[p]
                 /\ (e.kind = "created" /\ files[p][e.src].exists)
                      => broadcasts'[p] = broadcasts[p] + 1
                 /\ e.kind = "deleted" => broadcasts'[p] = broadcasts[p] + 1
                 /\ e.kind = "moved" => broadcasts'[p] = broadcasts[p] + 1]_vars

\* X has processed one MODIFY and dropped the next, handled no more than
\* 100 ms after it: the signature stored is not the one of the file
C26_Witness ==
  /\ writes = 2
  /\ moves = 0
  /\ events["X"] = <<>>
  /\ wpc["X"] = "idle"
  /\ ignore_events["X"]["f"] = 0
  /\ broadcasts["X"] = 1
  /\ now = last_trigger_time["X"] + DEBOUNCE
  /\ sigs["X"]["f"] # save_signature(compute_signature(files["X"]["f"].content))

\* C27: the handler of an event, of whatever kind, on a path with a '~' in
\* its name stores no signature and broadcasts nothing.
C27_BackupFilesIgnored ==
  [][\A p \in Procs :
       (HandlerRuns(p) /\ HasTilde(HandledEvent(p).src))
         => sigs'[p] = sigs[p] /\ broadcasts'[p] = broadcasts[p] /\ inbox' = inbox]_vars

====
